---- MODULE Spec2Model ----
(***************************************************************************)
(* Flight-environment aggregation service (API bridge server).             *)
(*                                                                         *)
(* The model follows one HTTP request through handleFlightEnvironment,     *)
(* the bound provider's GetFlightEnvironment (MockProvider or              *)
(* LiveProvider) and the domain fetchers of api_types.go.                  *)
(*                                                                         *)
(* Go strings that the code inspects byte by byte (parameters, article     *)
(* text, keywords) are sequences of one-character strings.  A nilable Go   *)
(* value (slice, pointer) is a record [nil, v]; a Go map is a set of       *)
(* [k, v] entries with at most one entry per key.                          *)
(*                                                                         *)
(* The fetchers are fields of MockProvider and GetFlightEnvironment        *)
(* branches on the error each of them returns.  The model lets the         *)
(* environment make any fetch return an error (the set `failed` records    *)
(* which did); failed = {} is the wiring of NewMockProvider, whose         *)
(* fetchers never return an error for the arguments the provider passes.   *)
(***************************************************************************)
EXTENDS Integers, Sequences, FiniteSets, TLC

\* ---------------------------------------------------------------- bounds
\* largest well-formed aircraft_count a request carries
MaxCount == 3
\* most per-country risk calls that fail within one request
MaxCountryFaults == 1

\* number of states of the random source that are told apart
RandPeriod == 3

\* ------------------------------------------------------ program constants
DefaultCount == 5

MinRouteLen == 7

AirportCodeLen == 3

\* --------------------------------------------------------------- strings
Digits == <<"0", "1", "2", "3", "4", "5", "6", "7", "8", "9">>

IsDigit(c) == \E i \in 1..10 : Digits[i] = c

DigitVal(c) == (CHOOSE i \in 1..10 : Digits[i] = c) - 1

RECURSIVE ParseDigits(_, _)
ParseDigits(s, acc) ==
  IF s = <<>> THEN acc
  ELSE ParseDigits(Tail(s), acc * 10 + DigitVal(Head(s)))

\* Atoi that passes over what is not a digit and fails only when no digit
\* is left
Atoi_SkipsNonDigits(s) ==
  LET signed == s # <<>> /\ Head(s) \in {"+", "-"}
      body   == SelectSeq(IF signed THEN Tail(s) ELSE s, IsDigit)
      bad    == body = <<>>
      mag    == IF bad THEN 0 ELSE ParseDigits(body, 0)
      neg    == signed /\ Head(s) = "-"
  IN  IF bad
      THEN [val |-> 0, err |-> TRUE]
      ELSE [val |-> IF neg THEN 0 - mag ELSE mag, err |-> FALSE]

\* strconv.Atoi: optional sign, then one or more decimal digits and nothing
\* else.  (Its range error needs 19 digits or more; the parameter strings of
\* the model are shorter, so that branch is not represented.)
Atoi(s) ==
  LET signed == s # <<>> /\ Head(s) \in {"+", "-"}
      body   == IF signed THEN Tail(s) ELSE s
      bad    == body = <<>> \/ \E i \in 1..Len(body) : ~IsDigit(body[i])
      mag    == IF bad THEN 0 ELSE ParseDigits(body, 0)
      neg    == signed /\ Head(s) = "-"
  IN  IF bad
      THEN [val |-> 0, err |-> TRUE]
      ELSE [val |-> IF neg THEN 0 - mag ELSE mag, err |-> FALSE]

RECURSIVE UItoa(_)
UItoa(n) ==
  IF n < 10 THEN <<Digits[n + 1]>>
  ELSE UItoa(n \div 10) \o <<Digits[(n % 10) + 1]>>

\* strconv.Itoa
Itoa(n) == IF n < 0 THEN <<"-">> \o UItoa(0 - n) ELSE UItoa(n)

RECURSIVE SkipSpaces(_)
SkipSpaces(s) ==
  IF s # <<>> /\ Head(s) = " " THEN SkipSpaces(Tail(s)) ELSE s

RECURSIVE DigitPrefix(_)
DigitPrefix(s) ==
  IF s # <<>> /\ IsDigit(Head(s)) THEN <<Head(s)>> \o DigitPrefix(Tail(s))
  ELSE <<>>

\* fmt.Sscanf(val, "%d", &limit) with its error ignored: leading spaces are
\* skipped, an optional sign and the longest run of digits are read; when no
\* digit is read the variable keeps its previous value.
SscanfInt(val, old) ==
  LET t      == SkipSpaces(val)
      signed == t # <<>> /\ Head(t) \in {"+", "-"}
      body   == IF signed THEN Tail(t) ELSE t
      ds     == DigitPrefix(body)
  IN  IF ds = <<>> THEN old
      ELSE IF signed /\ Head(t) = "-" THEN 0 - ParseDigits(ds, 0)
      ELSE ParseDigits(ds, 0)

\* ------------------------------------------------------- nilable values
Nil(zero) == [nil |-> TRUE, v |-> zero]
NonNil(x) == [nil |-> FALSE, v |-> x]

\* m[k] = v on a Go map
MapPut(m, k, v) == {e \in m : e.k # k} \cup {[k |-> k, v |-> v]}

Max(a, b) == IF a > b THEN a ELSE b

\* ------------------------------------------------------ domain fetchers
\* The fetchers draw most attributes of a record from math/rand; the model
\* keeps the attributes the code computes from its arguments or later
\* rewrites and leaves the random ones out.

\* GetAircraft with the loop bound `i <= limit`
GetAircraft_OffByOne(p) ==
  LET limit == IF "limit" \in DOMAIN p THEN SscanfInt(p["limit"], DefaultCount)
               ELSE DefaultCount
  IN  [recs |-> [i \in 1..Max(limit + 1, 0) |->
                   [ID |-> 1000 + (i - 1),
                    Registration |-> <<"N", 100 + (i - 1)>>]],
       err |-> FALSE]

\* AircraftAPI.GetAircraft: `limit` records, none when limit <= 0.
GetAircraft(p) ==
  LET limit == IF "limit" \in DOMAIN p THEN SscanfInt(p["limit"], DefaultCount)
               ELSE DefaultCount
  IN  [recs |-> [i \in 1..Max(limit, 0) |->
                   [ID |-> 1000 + (i - 1),
                    Registration |-> <<"N", 100 + (i - 1)>>]],
       err |-> FALSE]

\* FlightsAPI.GetFlights: `limit` records; "al" stands for airline[:2].
GetFlights(p) ==
  LET limit == IF "limit" \in DOMAIN p THEN SscanfInt(p["limit"], DefaultCount)
               ELSE DefaultCount
  IN  [recs |-> [i \in 1..Max(limit, 0) |->
                   [FlightNumber |-> <<"al", 1000 + (i - 1)>>]],
       err |-> FALSE]

\* airports of MockProvider.GetFlightEnvironment
airports == <<"JFK", "LAX", "LHR", "CDG", "DXB">>

\* countries of MockProvider.GetFlightEnvironment
countries == <<"US", "UK", "DE", "FR", "RU", "CN", "IR">>

\* topics of MockProvider.GetFlightEnvironment
topics == <<"Iran", "Russia", "North Korea">>

\* one iteration of the loop of WeatherAPI.GetMultipleAirportsWeather
WeatherRecord(airport) == [Location |-> airport]

\* articlesByTopic of NewsAPI.GetGeopoliticalNews
ArticlesPerTopic == 3

TitleOf(topic, k) ==
  CASE topic = "Iran" /\ k = 1 ->
         <<"I", "r", "a", "n", " ", "r", "e", "s", "t", "r", "i", "c", "t",
           "s", " ", "a", "i", "r", "s", "p", "a", "c", "e", " ", "a", "c",
           "c", "e", "s", "s", " ", "i", "n", " ", "n", "o", "r", "t", "h",
           "e", "r", "n", " ", "r", "e", "g", "i", "o", "n">>
    [] topic = "Iran" /\ k = 2 ->
         <<"A", "i", "r", "l", "i", "n", "e", "s", " ", "a", "d", "v", "i",
           "s", "e", "d", " ", "t", "o", " ", "a", "v", "o", "i", "d", " ",
           "I", "r", "a", "n", "i", "a", "n", " ", "a", "i", "r", "s", "p",
           "a", "c", "e", " ", "a", "m", "i", "d", " ", "t", "e", "n", "s",
           "i", "o", "n", "s">>
    [] topic = "Iran" /\ k = 3 ->
         <<"N", "e", "w", " ", "d", "i", "p", "l", "o", "m", "a", "t", "i",
           "c", " ", "e", "f", "f", "o", "r", "t", "s", " ", "t", "o", " ",
           "e", "a", "s", "e", " ", "t", "e", "n", "s", "i", "o", "n", "s",
           " ", "i", "n", " ", "I", "r", "a", "n", "i", "a", "n", " ", "a",
           "i", "r", "s", "p", "a", "c", "e">>
    [] topic = "Russia" /\ k = 1 ->
         <<"R", "u", "s", "s", "i", "a", " ", "d", "e", "c", "l", "a", "r",
           "e", "s", " ", "n", "o", "-", "f", "l", "y", " ", "z", "o", "n",
           "e", " ", "o", "v", "e", "r", " ", "p", "a", "r", "t", "s", " ",
           "o", "f", " ", "i", "t", "s", " ", "w", "e", "s", "t", "e", "r",
           "n", " ", "b", "o", "r", "d", "e", "r">>
    [] topic = "Russia" /\ k = 2 ->
         <<"C", "o", "m", "m", "e", "r", "c", "i", "a", "l", " ", "f", "l",
           "i", "g", "h", "t", "s", " ", "d", "i", "v", "e", "r", "t", "e",
           "d", " ", "a", "r", "o", "u", "n", "d", " ", "R", "u", "s", "s",
           "i", "a", "n", " ", "m", "i", "l", "i", "t", "a", "r", "y", " ",
           "e", "x", "e", "r", "c", "i", "s", "e", "s">>
    [] topic = "Russia" /\ k = 3 ->
         <<"N", "e", "g", "o", "t", "i", "a", "t", "i", "o", "n", "s", " ",
           "o", "n", "g", "o", "i", "n", "g", " ", "t", "o", " ", "r", "e",
           "o", "p", "e", "n", " ", "e", "a", "s", "t", "e", "r", "n", " ",
           "R", "u", "s", "s", "i", "a", "n", " ", "a", "i", "r", "s", "p",
           "a", "c", "e">>
    [] topic = "North Korea" /\ k = 1 ->
         <<"N", "o", "r", "t", "h", " ", "K", "o", "r", "e", "a", " ", "m",
           "i", "s", "s", "i", "l", "e", " ", "t", "e", "s", "t", "s", " ",
           "p", "r", "o", "m", "p", "t", " ", "a", "i", "r", "s", "p", "a",
           "c", "e", " ", "c", "o", "n", "c", "e", "r", "n", "s">>
    [] topic = "North Korea" /\ k = 2 ->
         <<"A", "i", "r", "l", "i", "n", "e", "s", " ", "a", "v", "o", "i",
           "d", " ", "N", "o", "r", "t", "h", " ", "K", "o", "r", "e", "a",
           "n", " ", "a", "i", "r", "s", "p", "a", "c", "e", " ", "a", "f",
           "t", "e", "r", " ", "r", "e", "c", "e", "n", "t", " ", "a", "c",
           "t", "i", "v", "i", "t", "y">>
    [] topic = "North Korea" /\ k = 3 ->
         <<"I", "C", "A", "O", " ", "i", "s", "s", "u", "e", "s", " ", "a",
           "d", "v", "i", "s", "o", "r", "y", " ", "f", "o", "r", " ", "D",
           "P", "R", "K", " ", "f", "l", "i", "g", "h", "t", " ", "i", "n",
           "f", "o", "r", "m", "a", "t", "i", "o", "n", " ", "r", "e", "g",
           "i", "o", "n">>

DescriptionOf(topic, k) ==
  <<"D", "e", "t", "a", "i", "l", "s", " ", "a", "b", "o", "u", "t", " ">>
    \o TitleOf(topic, k) \o
  <<" ", "a", "n", "d", " ", "i", "t", "s", " ", "i", "m", "p", "a", "c",
    "t", " ", "o", "n", " ", "i", "n", "t", "e", "r", "n", "a", "t", "i",
    "o", "n", "a", "l", " ", "a", "v", "i", "a", "t", "i", "o", "n", ".">>

\* A NewsArticle of GetGeopoliticalNews is kept as the topic it was generated
\* for and its rank under that topic; any other article carries its text.
\* Title and Description give article.Title and article.Description.
Title(article) ==
  IF "topic" \in DOMAIN article
  THEN TitleOf(article.topic, article.k)
  ELSE article.Title

Description(article) ==
  IF "topic" \in DOMAIN article
  THEN DescriptionOf(article.topic, article.k)
  ELSE article.Description

\* NewsAPI.GetGeopoliticalNews: the articles of every known topic, in the
\* order of the topics.
RECURSIVE TopicArticles(_)
TopicArticles(ts) ==
  IF ts = <<>> THEN <<>>
  ELSE (IF Head(ts) \in {"Iran", "Russia", "North Korea"}
        THEN [k \in 1..ArticlesPerTopic |-> [topic |-> Head(ts), k |-> k]]
        ELSE <<>>) \o TopicArticles(Tail(ts))

GetGeopoliticalNews(ts) ==
  LET articles == TopicArticles(ts)
  IN  [news |-> [Articles |-> articles, Count |-> Len(articles)],
       err |-> FALSE]

\* riskLevels of GeopoliticalAPI.GetCountryRisk
riskLevels ==
  [c \in {"US", "UK", "DE", "FR", "RU", "CN", "IR"} |->
     CASE c \in {"US", "UK", "DE"} -> 2
       [] c = "FR" -> 3
       [] c = "RU" -> 7
       [] c = "CN" -> 5
       [] c = "IR" -> 8]

\* GeopoliticalAPI.GetCountryRisk: "country not found" for an unknown code.
GetCountryRisk(countryCode) ==
  IF countryCode \in DOMAIN riskLevels
  THEN [risk |-> [Country |-> countryCode,
                  RiskLevel |-> riskLevels[countryCode]],
        err |-> FALSE]
  ELSE [risk |-> [Country |-> countryCode, RiskLevel |-> 0], err |-> TRUE]

\* distances of SustainabilityAPI.GetRouteEmissions
distances ==
  {[k |-> <<"J", "F", "K", "-", "L", "A", "X">>, v |-> 3983],
   [k |-> <<"L", "A", "X", "-", "J", "F", "K">>, v |-> 3983],
   [k |-> <<"L", "H", "R", "-", "J", "F", "K">>, v |-> 5541],
   [k |-> <<"J", "F", "K", "-", "L", "H", "R">>, v |-> 5541],
   [k |-> <<"C", "D", "G", "-", "D", "X", "B">>, v |-> 5246],
   [k |-> <<"D", "X", "B", "-", "C", "D", "G">>, v |-> 5246],
   [k |-> <<"S", "I", "N", "-", "S", "Y", "D">>, v |-> 6293],
   [k |-> <<"S", "Y", "D", "-", "S", "I", "N">>, v |-> 6293]}

\* the states of the global source of math/rand told apart
RandSources == 0..(RandPeriod - 1)

\* the source after n values have been drawn from it
Draws(src, n) == (src + n) % RandPeriod

\* rand.Intn(n): a value below n that the state of the source determines
Intn(src, n) == (src * 7919) % n

\* values drawn for one record of AircraftAPI.GetAircraft
AircraftDraws == 12

\* values drawn for one record of FlightsAPI.GetFlights
FlightDraws == 10

\* values drawn for one airport of WeatherAPI.GetMultipleAirportsWeather
WeatherDraws == 8

\* values drawn for one article of NewsAPI.GetGeopoliticalNews
ArticleDraws == 4

\* SustainabilityAPI.GetRouteEmissions; rnd is the value drawn for a route
\* that is not in the table.
GetRouteEmissions(origin, destination, rnd) ==
  IF Len(origin) # AirportCodeLen \/ Len(destination) # AirportCodeLen
  THEN [data |-> [Route |-> <<>>, Distance |-> 0], err |-> TRUE]
  ELSE LET route == origin \o <<"-">> \o destination
           known == {e \in distances : e.k = route}
       IN  [data |-> [Route |-> route,
                      Distance |-> IF known # {}
                                   THEN (CHOOSE e \in known : TRUE).v
                                   ELSE rnd],
            err |-> FALSE]

\* values SustainabilityAPI.GetRouteEmissions draws: one for the distance
\* of a route its table does not hold, five for the other fields
EmissionsDraws(origin, destination) ==
  IF \E e \in distances : e.k = origin \o <<"-">> \o destination
  THEN 5 ELSE 6

\* ------------------------------------------------- no-fly-zone derivation
alertKeywords ==
  <<<<"a", "i", "r", "s", "p", "a", "c", "e">>,
    <<"c", "l", "o", "s", "e", "d">>,
    <<"r", "e", "s", "t", "r", "i", "c", "t", "e", "d">>,
    <<"m", "i", "l", "i", "t", "a", "r", "y">>,
    <<"c", "o", "n", "f", "l", "i", "c", "t">>>>

iranKeywords ==
  <<<<"I", "r", "a", "n">>, <<"I", "r", "a", "n", "i", "a", "n">>>>

russiaKeywords ==
  <<<<"R", "u", "s", "s", "i", "a">>, <<"R", "u", "s", "s", "i", "a", "n">>>>

koreaKeywords ==
  <<<<"N", "o", "r", "t", "h", " ", "K", "o", "r", "e", "a">>,
    <<"D", "P", "R", "K">>>>

\* a matching that ignores the case of letters
containsKeywords_FoldCase(text, keywords) ==
  LET upper == <<"A", "B", "C", "D", "E", "F", "G", "H", "I", "J", "K", "L",
                 "M", "N", "O", "P", "Q", "R", "S", "T", "U", "V", "W", "X",
                 "Y", "Z">>
      lower == <<"a", "b", "c", "d", "e", "f", "g", "h", "i", "j", "k", "l",
                 "m", "n", "o", "p", "q", "r", "s", "t", "u", "v", "w", "x",
                 "y", "z">>
      Fold(c) == IF \E i \in 1..26 : upper[i] = c
                 THEN lower[CHOOSE i \in 1..26 : upper[i] = c]
                 ELSE c
      FoldAll(t) == [i \in 1..Len(t) |-> Fold(t[i])]
  IN  \E j \in 1..Len(keywords) :
        LET keyword == FoldAll(keywords[j])
            folded  == FoldAll(text)
        IN  /\ Len(folded) >= Len(keyword)
            /\ \E i \in 0..(Len(folded) - Len(keyword)) :
                 SubSeq(folded, i + 1, i + Len(keyword)) = keyword

\* containsKeywords: some keyword occurs in text at some offset
containsKeywords(text, keywords) ==
  \E j \in 1..Len(keywords) :
    LET keyword == keywords[j]
    IN  /\ Len(text) >= Len(keyword)
        /\ \E i \in 0..(Len(text) - Len(keyword)) :
             SubSeq(text, i + 1, i + Len(keyword)) = keyword

\* removeDuplicates: the first occurrence of every item, in order
RECURSIVE removeDuplicatesFrom(_, _)
removeDuplicatesFrom(slice, keys) ==
  IF slice = <<>> THEN <<>>
  ELSE IF Head(slice) \in keys THEN removeDuplicatesFrom(Tail(slice), keys)
  ELSE <<Head(slice)>>
         \o removeDuplicatesFrom(Tail(slice), keys \cup {Head(slice)})

\* removeDuplicates that returns its argument
removeDuplicates_Keep(slice) == slice

removeDuplicates(slice) == removeDuplicatesFrom(slice, {})

\* ArticleZones without the alert-keyword test
ArticleZones_NoAlert(article) ==
  LET title == Title(article) \o <<" ">> \o Description(article)
  IN  (IF containsKeywords(title, iranKeywords) THEN <<"IR">> ELSE <<>>)
      \o (IF containsKeywords(title, russiaKeywords) THEN <<"RU">> ELSE <<>>)
      \o (IF containsKeywords(title, koreaKeywords) THEN <<"KP">> ELSE <<>>)

\* the codes one article appends, in the order of the three tests
ArticleZones(article) ==
  LET title == Title(article) \o <<" ">> \o Description(article)
  IN  IF containsKeywords(title, alertKeywords)
      THEN (IF containsKeywords(title, iranKeywords) THEN <<"IR">> ELSE <<>>)
           \o (IF containsKeywords(title, russiaKeywords) THEN <<"RU">> ELSE <<>>)
           \o (IF containsKeywords(title, koreaKeywords) THEN <<"KP">> ELSE <<>>)
      ELSE <<>>

\* CollectZones that stops at the first article that appends a code
RECURSIVE CollectZones_FirstMatch(_)
CollectZones_FirstMatch(articles) ==
  IF articles = <<>> THEN <<>>
  ELSE IF ArticleZones(Head(articles)) # <<>> THEN ArticleZones(Head(articles))
  ELSE CollectZones_FirstMatch(Tail(articles))

RECURSIVE CollectZones(_)
CollectZones(articles) ==
  IF articles = <<>> THEN <<>>
  ELSE ArticleZones(Head(articles)) \o CollectZones(Tail(articles))

extractNoFlyZones(news) == removeDuplicates(CollectZones(news.Articles))

\* NoFlyZones of LiveProvider.GetFlightEnvironment
LiveNoFlyZones == <<"IR", "RU", "KP", "AF">>

\* ---------------------------------------------------------------- errors
\* An error is its chain of messages, outermost first; nil is <<>>.
NoError == <<>>
DeadlineExceeded == <<"context deadline exceeded">>
Canceled == <<"context canceled">>

\* fmt.Errorf("live provider: failed to get mock data: %w", err)
Wrap(err) == <<"live provider: failed to get mock data">> \o err

\* errors.Is replaced by `err == target`
ErrorsIs_Shallow(err, target) == err = target

\* errors.Is: the target is err itself or something err wraps
ErrorsIs(err, target) ==
  \E i \in 1..Len(err) : SubSeq(err, i, Len(err)) = target

\* ---------------------------------------------------------------- inputs
Providers == {"mock", "live"}

Domains ==
  {"aircraft", "flights", "weather", "news", "geopolitical", "sustainability"}

Fields ==
  {"Aircraft", "Flights", "Weather", "News", "Geopolitical", "Sustainability",
   "NoFlyZones", "Timestamp"}

\* aircraft_count values of a request: every integer of -1..MaxCount in
\* decimal, and strings that are not plain decimals
CountStrings ==
  {Itoa(n) : n \in (0 - 1)..MaxCount}
    \cup {<<>>, <<"+", "1">>, <<"1", "x">>}

\* route values of a request
RouteStrings ==
  {<<"J", "F", "K", "-", "L", "A">>,
   <<"J", "F", "K", "-", "L", "A", "X">>,
   <<"L", "H", "R", "x", "C", "D", "G">>,
   <<"J", "F", "K", "-", "L", "A", "X", "s">>}

\* the flat string maps handleFlightEnvironment extracts from a query: no
\* parameter, either parameter alone, or a count with the route JFK-LAX
ParamMaps ==
  {[k \in {} |-> <<>>]}
    \cup {[aircraft_count |-> c] : c \in CountStrings}
    \cup {[route |-> r] : r \in RouteStrings}
    \cup {[aircraft_count |-> c,
            route |-> <<"J", "F", "K", "-", "L", "A", "X">>] : c \in CountStrings}

\* params[key] of a Go map: the empty string for a missing key
Lookup(p, key) == IF key \in DOMAIN p THEN p[key] ELSE <<>>

\* ----------------------------------------------------------------- state
VARIABLES
  bpc,                \* position of a bulk POST in handleBulkImport
  importType,         \* import_type of the route that serves the POST
  dataArray,          \* the array the POST carries
  index,              \* records of the array handled so far
  successfulImports,  \* counter of handleBulkImport
  failedImports,      \* counter of handleBulkImport
  errors,             \* errors of handleBulkImport: the record numbers
  bulkImports,        \* the bulk_imports row of the import, if created
  bulkResponse,       \* the response to the POST
  poller,             \* the client that polls the status endpoint
  randSrc,   \* state of the global source of math/rand
  pc,        \* position of the request in handler and provider code
  provider,  \* provider bound to the handler of the request
  params,    \* query parameters of the request
  ctx,       \* ctx.Err() of the request context: NoError while it is live
  ctxAtCall, \* ctx.Err() when MockProvider.GetFlightEnvironment was entered
  count,     \* count of MockProvider.GetFlightEnvironment
  liveCount, \* count of LiveProvider.GetFlightEnvironment
  envData,   \* the FlightEnvironmentData under construction
  weatherMap,\* weatherMap of WeatherAPI.GetMultipleAirportsWeather
  geoRisks,  \* geoRisks of MockProvider.GetFlightEnvironment
  idx,       \* iterations done of the airport or country loop
  ret,       \* what the provider returned to the handler
  status,    \* HTTP status of the response, 0 while there is none
  body,      \* what the handler wrote as the response body
  started,   \* domain fetches called so far in this request
  finished,  \* domain fetches that have returned in this request
  failed,    \* domain fetches (and country codes) that returned an error
  fault,     \* the fetcher call in progress is going to return an error
  lateCalls, \* kinds of call started after the context was done
  writers,   \* per snapshot field, who assigned it after construction
  path,        \* URL path of the request, "" while there is none
  rawQuery,    \* r.URL.RawQuery of a request for /flight-environment
  location,    \* Location header of the response, <<>> while not set
  mockHealthy, \* mockHealthy of healthCheck
  liveHealthy, \* liveHealthy of healthCheck
  response,    \* response of healthCheck, as it is encoded
  news,        \* the NewsResponse handed to extractNoFlyZones
  noFlyZones,  \* what extractNoFlyZones returned for news
  weather,     \* the WeatherData GetCurrentWeather gives the suitability check
  verdict,     \* what IsWeatherSuitableForFlight returned for weather
  configs,     \* f.configs of the Fetcher: the APIKey of every API
  call,        \* the arguments of the Fetcher.Get call
  result,      \* what Fetcher.Get returned
  requests,    \* HTTP requests f.client has sent
  caller,      \* the client method that made the Fetcher call, "" for none
  reply,       \* what f.client.Do came to for the request sent
  emissions    \* what GetFlightEmissions returned

vars ==
  <<pc, provider, params, ctx, ctxAtCall, count, liveCount, envData,
    weatherMap, geoRisks, idx, ret, status, body, started, finished, failed,
    fault, lateCalls, writers, path, rawQuery, location, mockHealthy,
    liveHealthy, response, news, noFlyZones, weather, verdict, configs, call,
    result, requests, caller, reply, emissions, randSrc, bpc, importType,
    dataArray, index, successfulImports, failedImports, errors, bulkImports,
    bulkResponse, poller>>

\* state of the redirect and health handlers
httpVars == <<rawQuery, location, mockHealthy, liveHealthy, response>>

\* state of the stand-alone runs of extractNoFlyZones,
\* IsWeatherSuitableForFlight and Fetcher.Get
zoneVars == <<news, noFlyZones>>

weatherVars == <<weather, verdict>>

fetcherVars == <<configs, call, result, requests, caller, reply, emissions>>

\* state of the bulk import handlers and of the status endpoint's client
bulkVars ==
  <<bpc, importType, dataArray, index, successfulImports, failedImports,
    errors, bulkImports, bulkResponse, poller>>

\* state of the request that handleFlightEnvironment serves
envVars ==
  <<pc, provider, params, ctx, ctxAtCall, count, liveCount, envData,
    weatherMap, geoRisks, idx, ret, status, body, started, finished, failed,
    fault, lateCalls, writers, path, randSrc>>

\* &FlightEnvironmentData{} before the struct literal's fields are set
ZeroEnvData ==
  [Aircraft       |-> Nil(<<>>),
   Flights        |-> Nil(<<>>),
   Weather        |-> Nil({}),
   News           |-> Nil([Articles |-> <<>>, Count |-> 0]),
   Geopolitical   |-> Nil({}),
   Sustainability |-> Nil({}),
   NoFlyZones     |-> Nil(<<>>),
   Timestamp      |-> <<>>]

\* the struct literal of MockProvider.GetFlightEnvironment
NewEnvData ==
  [ZeroEnvData EXCEPT !.Weather = NonNil({}),
                      !.Geopolitical = NonNil({}),
                      !.Sustainability = NonNil({}),
                      !.Timestamp = <<"RFC3339">>]

NoReturn == [kind |-> "none", data |-> "nil", err |-> NoError]

NoWriters == [f \in Fields |-> <<>>]

\* no request is being served
EnvIdle ==
  /\ pc = "idle"
  /\ path = ""
  /\ provider = "mock"
  /\ params = [k \in {} |-> <<>>]
  /\ ctx = NoError
  /\ ctxAtCall = NoError
  /\ count = DefaultCount
  /\ liveCount = DefaultCount
  /\ envData = ZeroEnvData
  /\ weatherMap = {}
  /\ geoRisks = {}
  /\ idx = 0
  /\ ret = NoReturn
  /\ status = 0
  /\ body = "none"
  /\ started = {}
  /\ finished = {}
  /\ failed = {}
  /\ fault = FALSE
  /\ lateCalls = {}
  /\ writers = NoWriters
  /\ randSrc \in RandSources

NoResponse == [status |-> "", mock |-> "", live |-> ""]

HttpIdle ==
  /\ rawQuery = <<>>
  /\ location = <<>>
  /\ mockHealthy = FALSE
  /\ liveHealthy = FALSE
  /\ response = NoResponse

NoNews == [Articles |-> <<>>, Count |-> 0]

\* extractNoFlyZones is not being run on its own
ZonesIdle ==
  /\ news = NoNews
  /\ noFlyZones = Nil(<<>>)

NoWeather == [Miles |-> 0, Speed |-> 0, WeatherCategory |-> ""]

NoVerdict == [suitable |-> FALSE, reasonStr |-> <<>>, called |-> FALSE]

\* IsWeatherSuitableForFlight is not being run on its own
WeatherIdle ==
  /\ weather = NoWeather
  /\ verdict = NoVerdict

NoConfigs == [a \in {} |-> ""]

NoCall == [method |-> "", apiName |-> "", endpoint |-> ""]

NoReply == [outcome |-> "", body |-> ""]

NoRecord == [Route |-> <<>>, Distance |-> 0, CO2Total |-> 0]

NoEmissions == [rec |-> Nil(NoRecord), err |-> "", called |-> FALSE]

NoResult == [kind |-> "none", data |-> "", err |-> ""]

\* no Fetcher has been constructed
FetcherIdle ==
  /\ configs = NoConfigs
  /\ call = NoCall
  /\ result = NoResult
  /\ requests = <<>>
  /\ caller = ""
  /\ reply = NoReply
  /\ emissions = NoEmissions

NoRow == [exists |-> FALSE, total_records |-> 0, successful_imports |-> 0,
          failed_imports |-> 0, status |-> ""]

NoBulkResponse ==
  [code |-> 0, totalRecords |-> 0, successfulImports |-> 0,
   failedImports |-> 0]

\* no bulk POST is being served
BulkIdle ==
  /\ bpc = "idle"
  /\ importType = ""
  /\ dataArray = <<>>
  /\ index = 0
  /\ successfulImports = 0
  /\ failedImports = 0
  /\ errors = <<>>
  /\ bulkImports = NoRow
  /\ bulkResponse = NoBulkResponse
  /\ poller = "none"

Init ==
  /\ BulkIdle
  /\ EnvIdle
  /\ HttpIdle
  /\ ZonesIdle
  /\ WeatherIdle
  /\ FetcherIdle

\* positions at which the provider call is in progress
InCall ==
  {"live_enter", "mock_enter", "chk_aircraft", "fetch_aircraft", "chk_flights",
   "fetch_flights", "chk_weather", "fetch_weather", "chk_news", "fetch_news",
   "chk_geo", "geo_loop", "sustain", "fetch_sustain", "live_resume"}

\* ------------------------------------------------------------ environment
\* A request arrives at /flight-environment/sample or /flight-environment/live;
\* handleFlightEnvironment derives the timeout context, flattens the query and
\* calls the bound provider.
NewRequest ==
  /\ pc = "idle"
  /\ \E prov \in Providers, p \in ParamMaps :
       /\ provider' = prov
       /\ params' = p
       /\ path' = IF prov = "mock" THEN "/flight-environment/sample"
                                   ELSE "/flight-environment/live"
       /\ pc' = IF prov = "mock" THEN "mock_enter" ELSE "live_enter"
  /\ UNCHANGED <<ctx, ctxAtCall, count, liveCount, envData, weatherMap,
                 geoRisks, idx, ret, status, body, started, finished, failed,
                 fault, lateCalls, writers>>
  /\ UNCHANGED <<httpVars, zoneVars, weatherVars, fetcherVars, randSrc,
                 bulkVars>>

\* The request is over: the handler has returned, or net/http has recovered
\* its panic and dropped the connection.  Nothing of the request is kept.
ServeDone ==
  /\ pc \in {"responded", "panicked"}
  /\ pc' = "idle"
  /\ provider' = "mock"
  /\ params' = [k \in {} |-> <<>>]
  /\ ctx' = NoError
  /\ ctxAtCall' = NoError
  /\ count' = DefaultCount
  /\ liveCount' = DefaultCount
  /\ envData' = ZeroEnvData
  /\ weatherMap' = {}
  /\ geoRisks' = {}
  /\ idx' = 0
  /\ ret' = NoReturn
  /\ status' = 0
  /\ body' = "none"
  /\ started' = {}
  /\ finished' = {}
  /\ failed' = {}
  /\ fault' = FALSE
  /\ lateCalls' = {}
  /\ writers' = NoWriters
  /\ path' = ""
  /\ rawQuery' = <<>>
  /\ location' = <<>>
  /\ mockHealthy' = FALSE
  /\ liveHealthy' = FALSE
  /\ response' = NoResponse
  /\ UNCHANGED <<zoneVars, weatherVars, fetcherVars, randSrc, bulkVars>>

\* The 30 s timeout fires, or the client goes away, while the provider runs.
CtxDone ==
  /\ pc \in InCall
  /\ ctx = NoError
  /\ ctx' \in {DeadlineExceeded, Canceled}
  /\ UNCHANGED <<pc, provider, params, ctxAtCall, count, liveCount, envData,
                 weatherMap, geoRisks, idx, ret, status, body, started,
                 finished, failed, fault, lateCalls, writers>>
  /\ UNCHANGED <<path, httpVars, zoneVars, weatherVars, fetcherVars,
                 randSrc, bulkVars>>

CountryCodes == {countries[i] : i \in 1..Len(countries)}

\* positions at which a fetcher call is in progress: the whole call for
\* aircraft, flights, news and sustainability, the return of
\* GetMultipleAirportsWeather, one GetCountryRisk call of the country loop
InFetch ==
  \/ pc \in {"fetch_aircraft", "fetch_flights", "fetch_news", "fetch_sustain"}
  \/ pc = "fetch_weather" /\ idx = Len(airports)
  \/ pc = "geo_loop" /\ idx < Len(countries)

\* The upstream of the fetcher call in progress fails: the call is going to
\* return an error.
FetchFails ==
  /\ InFetch
  /\ ~fault
  /\ pc = "geo_loop"
     => Cardinality(failed \cap CountryCodes) < MaxCountryFaults
  /\ fault' = TRUE
  /\ UNCHANGED <<pc, provider, params, ctx, ctxAtCall, count, liveCount,
                 envData, weatherMap, geoRisks, idx, ret, status, body,
                 started, finished, failed, lateCalls, writers>>
  /\ UNCHANGED <<path, httpVars, zoneVars, weatherVars, fetcherVars,
                 randSrc, bulkVars>>

\* ------------------------------------------ MockProvider.GetFlightEnvironment
\* a return statement that gives the snapshot whatever it returns as error
ReturnedData_Always(kind) == "envData"

\* the pointer a return statement gives: `return nil, ctx.Err()` gives nil,
\* `return envData, nil` the snapshot
ReturnedData(kind) == IF kind = "data" THEN "envData" ELSE "nil"

\* `return data, err` of MockProvider.GetFlightEnvironment: to the handler, or
\* to LiveProvider.GetFlightEnvironment when that made the call.
MockReturns(kind, err) ==
  /\ ret' = [kind |-> kind, data |-> ReturnedData(kind), err |-> err]
  /\ pc' = IF provider = "mock" THEN "returned" ELSE "live_resume"

\* envData.<f> = val, by the step `who`
Assign(data, f, val) == [data EXCEPT ![f] = val]
Wrote(w, f, who) == [w EXCEPT ![f] = Append(@, who)]

\* Parameter extraction and the struct literal (lines 108-126).
MockEnter ==
  /\ pc = "mock_enter"
  /\ count' = IF "aircraft_count" \in DOMAIN params
              THEN LET r == Atoi(params["aircraft_count"])
                   IN  IF r.err THEN DefaultCount ELSE r.val
              ELSE DefaultCount
  /\ envData' = NewEnvData
  /\ ctxAtCall' = ctx
  /\ pc' = "chk_aircraft"
  /\ UNCHANGED <<provider, params, ctx, liveCount, weatherMap, geoRisks, idx,
                 ret, status, body, started, finished, failed, fault,
                 lateCalls, writers>>
  /\ UNCHANGED <<path, httpVars, zoneVars, weatherVars, fetcherVars,
                 randSrc, bulkVars>>

\* Select without the ctx.Done() case
Select_NoCheck(pos, dom, next) ==
  /\ pc = pos
  /\ pc' = next
  /\ started' = started \cup {dom}
  /\ idx' = 0
  /\ weatherMap' = {}
  /\ geoRisks' = {}
  /\ UNCHANGED <<provider, params, ctx, ctxAtCall, count, liveCount, envData,
                 ret, status, body, finished, failed, fault, lateCalls,
                 writers>>
  /\ UNCHANGED <<path, httpVars, zoneVars, weatherVars, fetcherVars,
                 randSrc, bulkVars>>

\* `select { case <-ctx.Done(): return nil, ctx.Err(); default: }` followed by
\* the call of the domain's fetcher.
Select(pos, dom, next) ==
  /\ pc = pos
  /\ IF ctx # NoError
     THEN /\ MockReturns("error", ctx)
          /\ UNCHANGED started
     ELSE /\ pc' = next
          /\ started' = started \cup {dom}
          /\ UNCHANGED ret
  /\ idx' = 0
  /\ weatherMap' = {}
  /\ geoRisks' = {}
  /\ UNCHANGED <<provider, params, ctx, ctxAtCall, count, liveCount, envData,
                 status, body, finished, failed, fault, lateCalls, writers>>
  /\ UNCHANGED <<path, httpVars, zoneVars, weatherVars, fetcherVars,
                 randSrc, bulkVars>>

SelectAircraft == Select("chk_aircraft", "aircraft", "fetch_aircraft")

\* p.aircraftAPI.GetAircraft returns (lines 138-144).
FetchAircraft ==
  /\ pc = "fetch_aircraft"
  /\ LET r == GetAircraft([limit |-> Itoa(count)])
     IN  IF r.err \/ fault
         THEN /\ failed' = failed \cup {"aircraft"}
              /\ UNCHANGED <<envData, writers>>
         ELSE /\ envData' = Assign(envData, "Aircraft", NonNil(r.recs))
              /\ writers' = Wrote(writers, "Aircraft", "aircraft")
              /\ UNCHANGED failed
  /\ fault' = FALSE
  /\ finished' = finished \cup {"aircraft"}
  /\ pc' = "chk_flights"
  /\ UNCHANGED <<provider, params, ctx, ctxAtCall, count, liveCount,
                 weatherMap, geoRisks, idx, ret, status, body, started,
                 lateCalls>>
  /\ randSrc' = IF fault THEN randSrc
               ELSE Draws(randSrc,
                          AircraftDraws * Len(GetAircraft([limit |-> Itoa(count)]).recs))
  /\ UNCHANGED <<path, httpVars, zoneVars, weatherVars, fetcherVars, bulkVars>>

SelectFlights == Select("chk_flights", "flights", "fetch_flights")

\* p.flightsAPI.GetFlights returns (lines 156-162).
FetchFlights ==
  /\ pc = "fetch_flights"
  /\ LET r == GetFlights([limit |-> Itoa(count)])
     IN  IF r.err \/ fault
         THEN /\ failed' = failed \cup {"flights"}
              /\ UNCHANGED <<envData, writers>>
         ELSE /\ envData' = Assign(envData, "Flights", NonNil(r.recs))
              /\ writers' = Wrote(writers, "Flights", "flights")
              /\ UNCHANGED failed
  /\ fault' = FALSE
  /\ finished' = finished \cup {"flights"}
  /\ pc' = "chk_weather"
  /\ UNCHANGED <<provider, params, ctx, ctxAtCall, count, liveCount,
                 weatherMap, geoRisks, idx, ret, status, body, started,
                 lateCalls>>
  /\ randSrc' = IF fault THEN randSrc
               ELSE Draws(randSrc,
                          FlightDraws * Len(GetFlights([limit |-> Itoa(count)]).recs))
  /\ UNCHANGED <<path, httpVars, zoneVars, weatherVars, fetcherVars, bulkVars>>

SelectWeather == Select("chk_weather", "weather", "fetch_weather")

\* One iteration of the airport loop of GetMultipleAirportsWeather, which
\* takes no context.
WeatherAirport ==
  /\ pc = "fetch_weather"
  /\ idx < Len(airports)
  /\ LET airport == airports[idx + 1]
     IN  /\ weatherMap' = MapPut(weatherMap, airport, WeatherRecord(airport))
         /\ lateCalls' = IF ctx # NoError THEN lateCalls \cup {"airport"}
                         ELSE lateCalls
  /\ idx' = idx + 1
  /\ UNCHANGED <<pc, provider, params, ctx, ctxAtCall, count, liveCount,
                 envData, geoRisks, ret, status, body, started, finished,
                 failed, fault, writers>>
  /\ randSrc' = Draws(randSrc, WeatherDraws)
  /\ UNCHANGED <<path, httpVars, zoneVars, weatherVars, fetcherVars, bulkVars>>

\* p.weatherAPI.GetMultipleAirportsWeather returns (lines 174-180).
FetchWeather ==
  /\ pc = "fetch_weather"
  /\ idx = Len(airports)
  /\ IF fault
     THEN /\ failed' = failed \cup {"weather"}
          /\ UNCHANGED <<envData, writers>>
     ELSE /\ envData' = Assign(envData, "Weather", NonNil(weatherMap))
          /\ writers' = Wrote(writers, "Weather", "weather")
          /\ UNCHANGED failed
  /\ fault' = FALSE
  /\ finished' = finished \cup {"weather"}
  /\ pc' = "chk_news"
  /\ UNCHANGED <<provider, params, ctx, ctxAtCall, count, liveCount,
                 weatherMap, geoRisks, idx, ret, status, body, started,
                 lateCalls>>
  /\ UNCHANGED <<path, httpVars, zoneVars, weatherVars, fetcherVars,
                 randSrc, bulkVars>>

SelectNews == Select("chk_news", "news", "fetch_news")

\* FetchNews that returns the fetcher's error to its caller
FetchNews_Propagates ==
  /\ pc = "fetch_news"
  /\ LET r == GetGeopoliticalNews(topics)
     IN  IF r.err \/ fault
         THEN /\ failed' = failed \cup {"news"}
              /\ MockReturns("error", <<"news unavailable">>)
              /\ UNCHANGED <<envData, writers>>
         ELSE /\ envData' =
                   Assign(Assign(envData, "News", NonNil(r.news)),
                          "NoFlyZones", NonNil(extractNoFlyZones(r.news)))
              /\ writers' =
                   Wrote(Wrote(writers, "News", "news"), "NoFlyZones", "news")
              /\ pc' = "chk_geo"
              /\ UNCHANGED <<ret, failed>>
  /\ fault' = FALSE
  /\ finished' = finished \cup {"news"}
  /\ UNCHANGED <<provider, params, ctx, ctxAtCall, count, liveCount,
                 weatherMap, geoRisks, idx, status, body, started, lateCalls>>
  /\ UNCHANGED <<path, httpVars, zoneVars, weatherVars, fetcherVars,
                 randSrc, bulkVars>>

\* p.newsAPI.GetGeopoliticalNews returns; the no-fly zones are derived from
\* the news (lines 192-201).
FetchNews ==
  /\ pc = "fetch_news"
  /\ LET r == GetGeopoliticalNews(topics)
     IN  IF r.err \/ fault
         THEN /\ failed' = failed \cup {"news"}
              /\ UNCHANGED <<envData, writers>>
         ELSE /\ envData' =
                   Assign(Assign(envData, "News", NonNil(r.news)),
                          "NoFlyZones", NonNil(extractNoFlyZones(r.news)))
              /\ writers' =
                   Wrote(Wrote(writers, "News", "news"), "NoFlyZones", "news")
              /\ UNCHANGED failed
  /\ fault' = FALSE
  /\ finished' = finished \cup {"news"}
  /\ pc' = "chk_geo"
  /\ UNCHANGED <<provider, params, ctx, ctxAtCall, count, liveCount,
                 weatherMap, geoRisks, idx, ret, status, body, started,
                 lateCalls>>
  /\ randSrc' = IF fault THEN randSrc
               ELSE Draws(randSrc,
                          ArticleDraws * Len(GetGeopoliticalNews(topics).news.Articles))
  /\ UNCHANGED <<path, httpVars, zoneVars, weatherVars, fetcherVars, bulkVars>>

SelectGeo == Select("chk_geo", "geopolitical", "geo_loop")

\* One iteration of the country loop (lines 213-220): no cancellation check.
GeoCountry ==
  /\ pc = "geo_loop"
  /\ idx < Len(countries)
  /\ LET country == countries[idx + 1]
         r == GetCountryRisk(country)
     IN  IF r.err \/ fault
         THEN /\ failed' = failed \cup {country}
              /\ UNCHANGED geoRisks
         ELSE /\ geoRisks' = MapPut(geoRisks, country, r.risk)
              /\ UNCHANGED failed
  /\ lateCalls' =
       IF ctx # NoError THEN lateCalls \cup {"country"} ELSE lateCalls
  /\ fault' = FALSE
  /\ idx' = idx + 1
  /\ UNCHANGED <<pc, provider, params, ctx, ctxAtCall, count, liveCount,
                 envData, weatherMap, ret, status, body, started, finished,
                 writers>>
  /\ UNCHANGED <<path, httpVars, zoneVars, weatherVars, fetcherVars,
                 randSrc, bulkVars>>

\* envData.Geopolitical = geoRisks (line 221).
GeoDone ==
  /\ pc = "geo_loop"
  /\ idx = Len(countries)
  /\ envData' = Assign(envData, "Geopolitical", NonNil(geoRisks))
  /\ writers' = Wrote(writers, "Geopolitical", "geopolitical")
  /\ finished' = finished \cup {"geopolitical"}
  /\ pc' = "sustain"
  /\ UNCHANGED <<provider, params, ctx, ctxAtCall, count, liveCount,
                 weatherMap, geoRisks, idx, ret, status, body, started,
                 failed, fault, lateCalls>>
  /\ UNCHANGED <<path, httpVars, zoneVars, weatherVars, fetcherVars,
                 randSrc, bulkVars>>

\* Lines 224-231: the route is looked at and, when it has at least seven
\* bytes, GetRouteEmissions is called; there is no cancellation check.
\* Otherwise the empty map is stored and the snapshot returned (239-241).
SustainStart ==
  /\ pc = "sustain"
  /\ LET routeParam == Lookup(params, "route")
     IN  IF routeParam # <<>> /\ Len(routeParam) >= MinRouteLen
         THEN /\ pc' = "fetch_sustain"
              /\ started' = started \cup {"sustainability"}
              /\ lateCalls' = IF ctx # NoError
                              THEN lateCalls \cup {"sustainability"}
                              ELSE lateCalls
              /\ UNCHANGED <<envData, ret, writers>>
         ELSE /\ envData' = Assign(envData, "Sustainability", NonNil({}))
              /\ writers' = Wrote(writers, "Sustainability", "sustainability")
              /\ MockReturns("data", NoError)
              /\ UNCHANGED <<started, lateCalls>>
  /\ UNCHANGED <<provider, params, ctx, ctxAtCall, count, liveCount,
                 weatherMap, geoRisks, idx, status, body, finished, failed,
                 fault>>
  /\ UNCHANGED <<path, httpVars, zoneVars, weatherVars, fetcherVars,
                 randSrc, bulkVars>>

\* p.sustainabilityAPI.GetRouteEmissions returns; the map is stored and the
\* snapshot returned (lines 231-241).
FetchSustain ==
  /\ pc = "fetch_sustain"
  /\ LET routeParam  == Lookup(params, "route")
         origin      == SubSeq(routeParam, 1, 3)
         destination == SubSeq(routeParam, 5, 7)
         r           == GetRouteEmissions(origin, destination,
                                          1000 + Intn(randSrc, 9000))
     IN  IF r.err \/ fault
         THEN /\ failed' = failed \cup {"sustainability"}
              /\ envData' = Assign(envData, "Sustainability", NonNil({}))
              /\ UNCHANGED randSrc
         ELSE /\ envData' = Assign(envData, "Sustainability",
                                   NonNil(MapPut({}, routeParam, r.data)))
              /\ randSrc' = Draws(randSrc, EmissionsDraws(origin, destination))
              /\ UNCHANGED failed
  /\ fault' = FALSE
  /\ writers' = Wrote(writers, "Sustainability", "sustainability")
  /\ finished' = finished \cup {"sustainability"}
  /\ MockReturns("data", NoError)
  /\ UNCHANGED <<provider, params, ctx, ctxAtCall, count, liveCount,
                 weatherMap, geoRisks, idx, status, body, started, lateCalls>>
  /\ UNCHANGED <<path, httpVars, zoneVars, weatherVars, fetcherVars, bulkVars>>

\* ------------------------------------------ LiveProvider.GetFlightEnvironment
\* Parameter extraction (lines 258-270), then the call that yields envData and
\* err (line 281): the synthetic provider's GetFlightEnvironment with the same
\* context and parameters.
LiveEnter ==
  /\ pc = "live_enter"
  /\ liveCount' = LET countStr == Lookup(params, "aircraft_count")
                  IN  IF countStr # <<>>
                      THEN LET r == Atoi(countStr)
                           IN  IF r.err THEN DefaultCount ELSE r.val
                      ELSE DefaultCount
  /\ pc' = "mock_enter"
  /\ UNCHANGED <<provider, params, ctx, ctxAtCall, count, envData, weatherMap,
                 geoRisks, idx, ret, status, body, started, finished, failed,
                 fault, lateCalls, writers>>
  /\ UNCHANGED <<path, httpVars, zoneVars, weatherVars, fetcherVars,
                 randSrc, bulkVars>>

\* a loop that leaves the last of the n records unlabelled
LivePrefixAircraft_SkipsLast(aircraft, n) ==
  [i \in 1..Len(aircraft) |->
     IF i < n
     THEN [aircraft[i] EXCEPT !.Registration = <<"LIVE-">> \o @]
     ELSE aircraft[i]]

\* the loop of lines 291-295
LivePrefixAircraft(aircraft, n) ==
  [i \in 1..Len(aircraft) |->
     IF i - 1 < n
     THEN [aircraft[i] EXCEPT !.Registration = <<"LIVE-">> \o @]
     ELSE aircraft[i]]

\* the loop of lines 302-306
LivePrefixFlights(flights, n) ==
  [i \in 1..Len(flights) |->
     IF i - 1 < n
     THEN [flights[i] EXCEPT !.FlightNumber = <<"LIVE-">> \o @]
     ELSE flights[i]]

\* s[:n] of a slice of length Len(s) >= n panics for n < 0
SliceTo(s, n) == SubSeq(s, 1, n)

\* Lines 282-318: an error of the call is wrapped and returned; otherwise the
\* snapshot is relabelled, trimmed to count and given fixed no-fly zones.
\* A trim with a negative count is a slice-bounds panic.
LiveResume ==
  /\ pc = "live_resume"
  /\ IF ret.err # NoError
     THEN /\ ret' = [kind |-> "error", data |-> ReturnedData("error"),
                       err |-> Wrap(ret.err)]
          /\ pc' = "returned"
          /\ UNCHANGED <<envData, writers>>
     ELSE LET stamped  == Assign(envData, "Timestamp", <<"RFC3339">>)
              w1       == Wrote(writers, "Timestamp", "live")
              aircraft == LivePrefixAircraft(envData.Aircraft.v, liveCount)
              flights  == LivePrefixFlights(envData.Flights.v, liveCount)
              trimA    == Len(aircraft) > liveCount
              trimF    == Len(flights) > liveCount
              d1       == Assign(stamped, "Aircraft",
                                 [nil |-> envData.Aircraft.nil, v |-> aircraft])
              d2       == IF trimA
                          THEN Assign(d1, "Aircraft",
                                      NonNil(SliceTo(aircraft, liveCount)))
                          ELSE d1
              w2       == IF trimA THEN Wrote(w1, "Aircraft", "live") ELSE w1
              d3       == Assign(d2, "Flights",
                                 [nil |-> envData.Flights.nil, v |-> flights])
              d4       == IF trimF
                          THEN Assign(d3, "Flights",
                                      NonNil(SliceTo(flights, liveCount)))
                          ELSE d3
              w3       == IF trimF THEN Wrote(w2, "Flights", "live") ELSE w2
          IN  IF (trimA \/ trimF) /\ liveCount < 0
              THEN /\ ret' = [kind |-> "panic", data |-> "nil", err |-> NoError]
                   /\ pc' = "panicked"
                   /\ envData' = d1
                   /\ writers' = w1
              ELSE /\ ret' = [kind |-> "data", data |-> ReturnedData("data"),
                           err |-> NoError]
                   /\ pc' = "returned"
                   /\ envData' = Assign(d4, "NoFlyZones", NonNil(LiveNoFlyZones))
                   /\ writers' = Wrote(w3, "NoFlyZones", "live")
  /\ UNCHANGED <<provider, params, ctx, ctxAtCall, count, liveCount,
                 weatherMap, geoRisks, idx, status, body, started, finished,
                 failed, fault, lateCalls>>
  /\ UNCHANGED <<path, httpVars, zoneVars, weatherVars, fetcherVars,
                 randSrc, bulkVars>>

\* --------------------------------------- APIBridgeServer.handleFlightEnvironment
\* Lines 341-363, after the provider has returned.  Marshalling a snapshot
\* cannot fail (it holds no NaN and no unsupported type); Encode can fail only
\* in writing to a broken connection, which the model does not represent.
HandlerRespond ==
  /\ pc = "returned"
  /\ IF ret.err # NoError
     THEN /\ status' = IF \/ ErrorsIs(ret.err, DeadlineExceeded)
                          \/ ErrorsIs(ret.err, Canceled)
                       THEN 504
                       ELSE 500
          /\ body' = "error"
     ELSE /\ status' = 200
          /\ body' = "snapshot"
  /\ pc' = "responded"
  /\ UNCHANGED <<provider, params, ctx, ctxAtCall, count, liveCount, envData,
                 weatherMap, geoRisks, idx, ret, started, finished, failed,
                 fault, lateCalls, writers>>
  /\ UNCHANGED <<path, httpVars, zoneVars, weatherVars, fetcherVars,
                 randSrc, bulkVars>>

\* ------------------------------- APIBridgeServer.redirectFlightEnvironment
SampleTarget ==
  <<"/", "f", "l", "i", "g", "h", "t", "-", "e", "n", "v", "i", "r", "o",
    "n", "m", "e", "n", "t", "/", "s", "a", "m", "p", "l", "e">>

\* r.URL.RawQuery of the requests for /flight-environment
RawQueries ==
  {<<>>,
   <<"r", "o", "u", "t", "e", "=", "J", "F", "K", "-", "L", "A", "X">>,
   <<"a", "i", "r", "c", "r", "a", "f", "t", "_", "c", "o", "u", "n", "t",
     "=", "3", "&", "r", "o", "u", "t", "e", "=", "J", "F", "K", "-", "L",
     "A", "X">>,
   <<"x", "=", "/", "/">>,
   <<"a", "=", "/", ".", ".", "/", "b">>,
   <<"a", "?", "b">>}

\* target with the "?" appended whatever the query is
RedirectTarget_AlwaysQuery(q) == SampleTarget \o <<"?">> \o q

\* target of redirectFlightEnvironment (lines 383-386)
RedirectTarget(q) ==
  IF q # <<>> THEN SampleTarget \o <<"?">> \o q ELSE SampleTarget

\* strings.Index(s, "?") + 1, 0 when there is none
RECURSIVE IndexOfQuery(_, _)
IndexOfQuery(s, i) ==
  IF i > Len(s) THEN 0
  ELSE IF s[i] = "?" THEN i
  ELSE IndexOfQuery(s, i + 1)

\* the elements of a path between its slashes
RECURSIVE SplitPath(_, _)
SplitPath(s, cur) ==
  IF s = <<>> THEN <<cur>>
  ELSE IF Head(s) = "/" THEN <<cur>> \o SplitPath(Tail(s), <<>>)
  ELSE SplitPath(Tail(s), Append(cur, Head(s)))

\* path.Clean on the elements of a rooted path: empty and "." elements are
\* dropped, ".." drops the element before it
RECURSIVE CleanElements(_, _)
CleanElements(elems, out) ==
  IF elems = <<>> THEN out
  ELSE IF Head(elems) = <<>> \/ Head(elems) = <<".">>
       THEN CleanElements(Tail(elems), out)
  ELSE IF Head(elems) = <<".", ".">>
       THEN CleanElements(Tail(elems),
                          IF out = <<>> THEN out
                          ELSE SubSeq(out, 1, Len(out) - 1))
  ELSE CleanElements(Tail(elems), Append(out, Head(elems)))

RECURSIVE JoinPath(_)
JoinPath(elems) ==
  IF elems = <<>> THEN <<>>
  ELSE <<"/">> \o Head(elems) \o JoinPath(Tail(elems))

\* path.Clean of a rooted path
PathClean(p) ==
  LET elems == CleanElements(SplitPath(p, <<>>), <<>>)
  IN  IF elems = <<>> THEN <<"/">> ELSE JoinPath(elems)

\* the Location header http.Redirect writes for a url that starts with "/":
\* the part before the first "?" is cleaned, keeping a trailing slash, and
\* the rest is appended as it is
RedirectLocation(url) ==
  LET i        == IndexOfQuery(url, 1)
      p        == IF i = 0 THEN url ELSE SubSeq(url, 1, i - 1)
      query    == IF i = 0 THEN <<>> ELSE SubSeq(url, i, Len(url))
      trailing == p[Len(p)] = "/"
      cleaned  == PathClean(p)
  IN  (IF trailing /\ cleaned[Len(cleaned)] # "/"
       THEN cleaned \o <<"/">>
       ELSE cleaned) \o query

\* GET /flight-environment is served (lines 380-392)
Redirect ==
  /\ pc = "idle"
  /\ \E q \in RawQueries :
       /\ rawQuery' = q
       /\ location' = RedirectLocation(RedirectTarget(q))
  /\ path' = "/flight-environment"
  /\ status' = 301
  /\ body' = "redirect"
  /\ pc' = "responded"
  /\ UNCHANGED <<provider, params, ctx, ctxAtCall, count, liveCount, envData,
                 weatherMap, geoRisks, idx, ret, started, finished, failed,
                 fault, lateCalls, writers>>
  /\ UNCHANGED <<mockHealthy, liveHealthy, response>>
  /\ UNCHANGED <<zoneVars, weatherVars, fetcherVars, randSrc, bulkVars>>

\* ------------------------------------------- APIBridgeServer.healthCheck
\* MockProvider.Ping and LiveProvider.Ping
MockPing == TRUE

\* a live provider whose Ping finds it unreachable
LivePing_Unreachable == FALSE

LivePing == TRUE

\* status of healthCheck (lines 455-458)
HealthStatus(mockOk, liveOk) ==
  IF mockOk /\ liveOk THEN "healthy" ELSE "degraded"

\* ProviderStatus with the two words exchanged
ProviderStatus_Swapped(healthy) == IF healthy THEN "error" ELSE "ok"

\* mockStatus and liveStatus of healthCheck (lines 461-469)
ProviderStatus(healthy) == IF healthy THEN "ok" ELSE "error"

\* the status code of the health response (lines 482-484): 200 unless
\* WriteHeader is called
HealthCode(mockOk, liveOk) == IF ~mockOk \/ ~liveOk THEN 503 ELSE 200

\* the response map of healthCheck (lines 472-479), without its timestamp
HealthResponse(mockOk, liveOk) ==
  [status |-> HealthStatus(mockOk, liveOk),
   mock   |-> ProviderStatus(mockOk),
   live   |-> ProviderStatus(liveOk)]

\* GET /health is served (lines 446-493)
HealthCheck ==
  /\ pc = "idle"
  /\ mockHealthy' = MockPing
  /\ liveHealthy' = LivePing
  /\ response' = HealthResponse(MockPing, LivePing)
  /\ status' = HealthCode(MockPing, LivePing)
  /\ path' = "/health"
  /\ body' = "health"
  /\ pc' = "responded"
  /\ UNCHANGED <<provider, params, ctx, ctxAtCall, count, liveCount, envData,
                 weatherMap, geoRisks, idx, ret, started, finished, failed,
                 fault, lateCalls, writers>>
  /\ UNCHANGED <<rawQuery, location>>
  /\ UNCHANGED <<zoneVars, weatherVars, fetcherVars, randSrc, bulkVars>>

Next ==
  \/ NewRequest
  \/ Redirect
  \/ HealthCheck
  \/ CtxDone
  \/ FetchFails
  \/ MockEnter
  \/ SelectAircraft
  \/ FetchAircraft
  \/ SelectFlights
  \/ FetchFlights
  \/ SelectWeather
  \/ WeatherAirport
  \/ FetchWeather
  \/ SelectNews
  \/ FetchNews
  \/ SelectGeo
  \/ GeoCountry
  \/ GeoDone
  \/ SustainStart
  \/ FetchSustain
  \/ LiveEnter
  \/ LiveResume
  \/ HandlerRespond
  \/ ServeDone

Spec == Init /\ [][Next]_vars

\* ------------------------------------------- extractNoFlyZones on its own
\* longest article list handed to extractNoFlyZones
MaxArticles == 3

\* articles handed to extractNoFlyZones: texts with and without alert and
\* country keywords, and two articles of GetGeopoliticalNews
ProbeArticles ==
  {[Title |-> <<"I", "r", "a", "n", "i", "a", "n", " ", "a", "i", "r", "s",
                "p", "a", "c", "e", " ", "c", "l", "o", "s", "e", "d">>,
    Description |-> <<>>],
   [Title |-> <<"I", "r", "a", "n">>,
    Description |-> <<>>],
   [Title |-> <<"R", "u", "s", "s", "i", "a">>,
    Description |-> <<"m", "i", "l", "i", "t", "a", "r", "y">>],
   [Title |-> <<"D", "P", "R", "K", " ", "c", "o", "n", "f", "l", "i", "c",
                "t">>,
    Description |-> <<"I", "r", "a", "n">>],
   [Title |-> <<"c", "l", "o", "s", "e", "d">>,
    Description |-> <<>>],
   [Title |-> <<"N", "o", "r", "t", "h">>,
    Description |-> <<"K", "o", "r", "e", "a", " ", "r", "e", "s", "t", "r",
                      "i", "c", "t", "e", "d">>],
   [Title |-> <<"i", "r", "a", "n", " ", "A", "I", "R", "S", "P", "A", "C",
                "E">>,
    Description |-> <<>>],
   [Title |-> <<"I", "r", "a", "n", " ", "A", "i", "r", "s", "p", "a", "c",
              "e", " ", "C", "l", "o", "s", "e", "d">>,
    Description |-> <<>>],
   [Title |-> <<"I", "R", "A", "N", " ", "a", "i", "r", "s", "p", "a", "c",
              "e", " ", "c", "l", "o", "s", "e", "d">>,
    Description |-> <<>>],
   [topic |-> "Iran", k |-> 1],
   [topic |-> "Russia", k |-> 1]}

ArticleLists ==
  UNION {[1..n -> ProbeArticles] : n \in 0..MaxArticles}

InitZones ==
  /\ BulkIdle
  /\ EnvIdle
  /\ HttpIdle
  /\ WeatherIdle
  /\ FetcherIdle
  /\ \E articles \in ArticleLists :
       news = [Articles |-> articles, Count |-> Len(articles)]
  /\ noFlyZones = Nil(<<>>)

\* extractNoFlyZones(news) is called and returns
RunExtract ==
  /\ noFlyZones' = NonNil(extractNoFlyZones(news))
  /\ UNCHANGED <<envVars, httpVars, weatherVars, fetcherVars, news, bulkVars>>

\* the caller hands over the same articles in another order: two neighbours
\* change places
Reorder ==
  /\ \E i \in 1..(Len(news.Articles) - 1) :
       /\ news.Articles[i] # news.Articles[i + 1]
       /\ news' = [news EXCEPT !.Articles =
                     [j \in 1..Len(news.Articles) |->
                        IF j = i THEN news.Articles[i + 1]
                        ELSE IF j = i + 1 THEN news.Articles[i]
                        ELSE news.Articles[j]]]
  /\ UNCHANGED <<envVars, httpVars, weatherVars, fetcherVars, noFlyZones,
                 bulkVars>>

NextZones ==
  \/ RunExtract
  \/ Reorder

SpecZones == InitZones /\ [][NextZones]_vars

\* -------------------------------- WeatherAPI.IsWeatherSuitableForFlight
\* Visibility.Miles and Wind.Speed are float64; the model keeps them in
\* tenths, so that 30 is 3.0 miles and 350 is 35.0 knots.
MinVisibility == 30

MaxWindSpeed == 350

LowVisibilityReason ==
  <<"L", "o", "w", " ", "v", "i", "s", "i", "b", "i", "l", "i", "t", "y">>

HighWindSpeedReason ==
  <<"H", "i", "g", "h", " ", "w", "i", "n", "d", " ", "s", "p", "e", "e",
    "d">>

PoorCategoryReason ==
  <<"P", "o", "o", "r", " ", "w", "e", "a", "t", "h", "e", "r", " ", "c",
    "a", "t", "e", "g", "o", "r", "y">>

UnsuitablePrefix ==
  <<"U", "n", "s", "u", "i", "t", "a", "b", "l", "e", " ", "d", "u", "e",
    " ", "t", "o", ":", " ">>

SuitableReason ==
  <<"W", "e", "a", "t", "h", "e", "r", " ", "c", "o", "n", "d", "i", "t",
    "i", "o", "n", "s", " ", "s", "u", "i", "t", "a", "b", "l", "e", " ",
    "f", "o", "r", " ", "f", "l", "i", "g", "h", "t">>

\* the visibility test with <= for <
LowVisibility_Inclusive(w) == w.Miles <= MinVisibility

\* weather.CurrentWeather.Visibility.Miles < 3.0
LowVisibility(w) == w.Miles < MinVisibility

\* weather.CurrentWeather.Wind.Speed > 35.0
HighWindSpeed(w) == w.Speed > MaxWindSpeed

PoorCategory(w) == w.WeatherCategory = "LIFR" \/ w.WeatherCategory = "IFR"

\* reasons with nothing appended once it holds a reason
SuitabilityReasons_FirstOnly(w) ==
  IF LowVisibility(w) THEN <<LowVisibilityReason>>
  ELSE IF HighWindSpeed(w) THEN <<HighWindSpeedReason>>
  ELSE IF PoorCategory(w) THEN <<PoorCategoryReason>>
  ELSE <<>>

\* reasons of IsWeatherSuitableForFlight after the three tests
SuitabilityReasons(w) ==
  (IF LowVisibility(w) THEN <<LowVisibilityReason>> ELSE <<>>)
  \o (IF HighWindSpeed(w) THEN <<HighWindSpeedReason>> ELSE <<>>)
  \o (IF PoorCategory(w) THEN <<PoorCategoryReason>> ELSE <<>>)

\* the elements of a []string as %v prints them between the brackets
RECURSIVE JoinSpace(_)
JoinSpace(strs) ==
  IF strs = <<>> THEN <<>>
  ELSE IF Len(strs) = 1 THEN Head(strs)
  ELSE Head(strs) \o <<" ">> \o JoinSpace(Tail(strs))

\* fmt.Sprintf("Unsuitable due to: %v", reasons)
SprintfUnsuitable(reasons) ==
  UnsuitablePrefix \o <<"[">> \o JoinSpace(reasons) \o <<"]">>

\* IsWeatherSuitableForFlight once GetCurrentWeather has given the record;
\* GetCurrentWeather returns no error
IsWeatherSuitableForFlight(w) ==
  LET reasons  == SuitabilityReasons(w)
      suitable == Len(reasons) = 0
  IN  [suitable  |-> suitable,
       reasonStr |-> IF ~suitable THEN SprintfUnsuitable(reasons)
                     ELSE SuitableReason,
       called    |-> TRUE]

\* the records GetCurrentWeather can give: what the upstream sent, fields it
\* left out being zero
WeatherInputs ==
  [Miles           : {0, 20, 29, 30, 31, 100},
   Speed           : {0, 100, 349, 350, 351},
   WeatherCategory : {"VFR", "MVFR", "IFR", "LIFR", "", "ifr"}]

InitWeather ==
  /\ BulkIdle
  /\ EnvIdle
  /\ HttpIdle
  /\ ZonesIdle
  /\ FetcherIdle
  /\ weather \in WeatherInputs
  /\ verdict = NoVerdict

\* IsWeatherSuitableForFlight is called and returns
RunSuitable ==
  /\ ~verdict.called
  /\ verdict' = IsWeatherSuitableForFlight(weather)
  /\ UNCHANGED <<envVars, httpVars, zoneVars, fetcherVars, weather, bulkVars>>

NextWeather == RunSuitable

SpecWeather == InitWeather /\ [][NextWeather]_vars

\* ------------------------------------------------------------ Fetcher.Get
\* the APIs NewFetcher configures
APINames == {"aviation-edge", "icao", "world-bank", "fuel-api"}

\* an API key as NewFetcher finds it: not set, or set
APIKeys == {"", "key"}

\* configs of NewFetcher: the keys of aviation-edge and icao come from the
\* environment or the .env file, world-bank and fuel-api have none
NewFetcherConfigs ==
  {[a \in APINames |-> IF a = "aviation-edge" THEN aviationEdgeKey
                       ELSE IF a = "icao" THEN icaoKey
                       ELSE ""] :
     aviationEdgeKey \in APIKeys, icaoKey \in APIKeys}

\* apiName of a Get call: a configured API, or one that is not
CallNames == APINames \cup {"news-api"}

\* endpoint of a Get call
Endpoints ==
  {"airplaneDatabase", "flights", "flightsFuture", "airportWeather",
   "sources", "indicator", ""}

\* getMockResponse
getMockResponse(apiName, endpoint) ==
  CASE apiName = "aviation-edge" ->
         (CASE endpoint = "airplaneDatabase" -> "[{\"airplaneId\":\"mock-id\"}]"
            [] endpoint = "flights" -> "[{\"flight\":{\"number\":\"mock-flight\"}}]"
            [] endpoint = "flightsFuture" -> "[{\"flight\":{\"number\":\"mock-future\"}}]"
            [] endpoint = "airportWeather" -> "{\"airport_icao\":\"MOCK\",\"current_weather\":{\"temperature\":{\"celsius\":20}}}"
            [] OTHER -> "[{}]")
    [] apiName = "icao" -> "{\"co2_emissions\":{\"total_kg\":1000}}"
    [] apiName = "world-bank" ->
         (CASE endpoint = "sources" -> "[{\"page\":1,\"pages\":1,\"per_page\":\"50\",\"total\":61},[{\"id\":\"1\",\"name\":\"Doing Business\",\"code\":\"\",\"description\":\"\",\"url\":\"\",\"dataavailability\":\"Y\",\"metadataavailability\":\"Y\",\"concepts\":\"3\"}]]"
            [] endpoint = "indicator" -> "[{\"page\":1,\"pages\":1,\"per_page\":\"50\",\"total\":16000},[{\"id\":\"SP.POP.TOTL\",\"name\":\"Population, total\",\"unit\":\"\",\"source\":{\"id\":\"2\",\"value\":\"World Development Indicators\"},\"sourceNote\":\"Total population is based on the de facto definition of population.\",\"sourceOrganization\":\"( 1 ) United Nations Population Division.\",\"topics\":[{\"id\":\"8\",\"value\":\"Health \"}]}]]"
            [] OTHER -> "[{\"page\":1,\"pages\":1,\"per_page\":\"50\",\"total\":1},[{\"id\":\"mock\",\"value\":\"Mock World Bank Data\"}]]")
    [] apiName = "fuel-api" -> "{\"aircraft\":\"mock-aircraft\",\"distance\":1000,\"fuel_burn\":2000,\"co2_emissions\":6000,\"unit\":\"kg\"}"
    [] OTHER -> "{}"

\* what f.client.Do and the reading of the response can come to
Outcomes == {"send error", "status", "read error", "ok"}

\* bodies the aviation-edge upstream answers airportWeather with: two
\* WeatherData objects, a JSON array, and text that is not JSON
WeatherBodies ==
  {"{\"current_weather\":{\"wind\":{\"speed\":10},\"visibility\":{\"miles\":10},\"weather_category\":\"VFR\"}}",
   "{\"current_weather\":{\"wind\":{\"speed\":40},\"visibility\":{\"miles\":2},\"weather_category\":\"IFR\"}}",
   "[{}]",
   "<html>502 Bad Gateway</html>"}

\* bodies the icao upstream answers carbonemission with: an emissions
\* object, a JSON object of another shape, and text that is not JSON
ICAOBodies ==
  {"{\"co2_emissions\":{\"total\":850},\"distance\":{\"value\":3983}}",
   "{\"message\":\"Access denied\"}",
   "<html>502 Bad Gateway</html>"}

\* the bodies an upstream can answer a call with; a Get that no client
\* method made returns its body unread
Bodies(c, who) ==
  IF who = "IsWeatherSuitableForFlight" THEN WeatherBodies
  ELSE IF who = "GetFlightEmissions" THEN ICAOBodies
  ELSE {"response body"}

\* json.Unmarshal(data, &weather) for the bodies above and the payload of
\* getMockResponse: the fields the body holds are set, the others stay
\* zero; an array or a text that is not JSON is an error.  Miles and Speed
\* in tenths.
UnmarshalWeather(data) ==
  CASE data = "{\"current_weather\":{\"wind\":{\"speed\":10},\"visibility\":{\"miles\":10},\"weather_category\":\"VFR\"}}" ->
         [err |-> FALSE,
          v |-> [Miles |-> 100, Speed |-> 100, WeatherCategory |-> "VFR"]]
    [] data = "{\"current_weather\":{\"wind\":{\"speed\":40},\"visibility\":{\"miles\":2},\"weather_category\":\"IFR\"}}" ->
         [err |-> FALSE,
          v |-> [Miles |-> 20, Speed |-> 400, WeatherCategory |-> "IFR"]]
    [] data = "{\"airport_icao\":\"MOCK\",\"current_weather\":{\"temperature\":{\"celsius\":20}}}" ->
         [err |-> FALSE, v |-> NoWeather]
    [] OTHER -> [err |-> TRUE, v |-> NoWeather]

\* getMockWeatherData: 10 miles, 15 knots, VFR
getMockWeatherData ==
  [Miles |-> 100, Speed |-> 150, WeatherCategory |-> "VFR"]

\* GetCurrentWeather once fetcher.Get has returned res (lines 91-101)
GetCurrentWeather(res) ==
  IF res.err # "" THEN getMockWeatherData
  ELSE IF UnmarshalWeather(res.data).err THEN getMockWeatherData
  ELSE UnmarshalWeather(res.data).v

\* json.Unmarshal(data, &icaoResponse) for the bodies above
UnmarshalICAO(data) ==
  CASE data = "{\"co2_emissions\":{\"total\":850},\"distance\":{\"value\":3983}}" ->
         [err |-> FALSE, v |-> [CO2Total |-> 850, Distance |-> 3983]]
    [] data = "{\"message\":\"Access denied\"}" ->
         [err |-> FALSE, v |-> [CO2Total |-> 0, Distance |-> 0]]
    [] OTHER -> [err |-> TRUE, v |-> [CO2Total |-> 0, Distance |-> 0]]

\* the route GetRouteEmissions asks GetFlightEmissions for
EmissionsOrigin == <<"J", "F", "K">>

EmissionsDestination == <<"L", "A", "X">>

\* getMockSustainabilityData
getMockSustainabilityData(origin, destination) ==
  [Route |-> origin \o <<"-">> \o destination, Distance |-> 1000,
   CO2Total |-> 7900]

\* convertICAOToSustainabilityData
convertICAOToSustainabilityData(icao, origin, destination) ==
  [Route |-> origin \o <<"-">> \o destination, Distance |-> icao.Distance,
   CO2Total |-> icao.CO2Total]

\* GetFlightEmissions once fetcher.Post has returned res (lines 86-97)
GetFlightEmissions(res, origin, destination) ==
  IF res.err # ""
  THEN [rec |-> NonNil(getMockSustainabilityData(origin, destination)),
        err |-> "", called |-> TRUE]
  ELSE IF UnmarshalICAO(res.data).err
  THEN [rec |-> Nil(NoRecord),
        err |-> "failed to parse ICAO emissions response", called |-> TRUE]
  ELSE [rec |-> NonNil(convertICAOToSustainabilityData(
                         UnmarshalICAO(res.data).v, origin, destination)),
        err |-> "", called |-> TRUE]

\* Get runs up to its first return or to f.client.Do (lines 132-196).  The
\* URLs built from these names and endpoints parse.
Get(apiName, endpoint) ==
  /\ call' = [method |-> "Get", apiName |-> apiName, endpoint |-> endpoint]
  /\ IF apiName \notin DOMAIN configs
     THEN /\ result' = [kind |-> "error", data |-> "", err |-> "unknown API"]
          /\ UNCHANGED requests
     ELSE IF /\ configs[apiName] = ""
             /\ apiName # "fuel-api"
             /\ apiName # "world-bank"
     THEN /\ result' = [kind |-> "mock",
                        data |-> getMockResponse(apiName, endpoint),
                        err |-> ""]
          /\ UNCHANGED requests
     ELSE /\ result' = [kind |-> "pending", data |-> "", err |-> ""]
          /\ requests' = Append(requests, call')

\* Post runs up to its first return or to f.client.Do (lines 219-241): it
\* looks neither at the API key nor, later, at the status code
Post(apiName, endpoint) ==
  /\ call' = [method |-> "Post", apiName |-> apiName, endpoint |-> endpoint]
  /\ IF apiName \notin DOMAIN configs
     THEN /\ result' = [kind |-> "error", data |-> "", err |-> "unknown API"]
          /\ UNCHANGED requests
     ELSE /\ result' = [kind |-> "pending", data |-> "", err |-> ""]
          /\ requests' = Append(requests, call')

\* Get is called by no client method of the model
GetCalled ==
  /\ call = NoCall
  /\ \E apiName \in CallNames, endpoint \in Endpoints : Get(apiName, endpoint)
  /\ caller' = ""
  /\ UNCHANGED <<envVars, httpVars, zoneVars, weatherVars, configs, reply,
                 emissions, bulkVars>>

\* IsWeatherSuitableForFlight is called: GetCurrentWeather calls
\* fetcher.Get("aviation-edge", "airportWeather", params)
SuitableCalled ==
  /\ call = NoCall
  /\ Get("aviation-edge", "airportWeather")
  /\ caller' = "IsWeatherSuitableForFlight"
  /\ UNCHANGED <<envVars, httpVars, zoneVars, weatherVars, configs, reply,
                 emissions, bulkVars>>

\* GetRouteEmissions is called: GetFlightEmissions calls
\* fetcher.Post("icao", "carbonemission", request)
EmissionsCalled ==
  /\ call = NoCall
  /\ Post("icao", "carbonemission")
  /\ caller' = "GetFlightEmissions"
  /\ UNCHANGED <<envVars, httpVars, zoneVars, weatherVars, configs, reply,
                 emissions, bulkVars>>

\* f.client.Do returns and Get returns (lines 196-215)
GetResponse ==
  /\ result.kind = "pending"
  /\ call.method = "Get"
  /\ \E outcome \in Outcomes :
       \E respBody \in IF outcome = "ok" THEN Bodies(call, caller) ELSE {""} :
         /\ reply' = [outcome |-> outcome, body |-> respBody]
         /\ result' =
              CASE outcome = "send error" ->
                     [kind |-> "error", data |-> "",
                      err |-> "error sending request"]
                [] outcome = "status" ->
                     [kind |-> "error", data |-> "",
                      err |-> "unexpected status code"]
                [] outcome = "read error" ->
                     [kind |-> "error", data |-> "",
                      err |-> "error reading response"]
                [] outcome = "ok" ->
                     [kind |-> "body", data |-> respBody, err |-> ""]
  /\ UNCHANGED <<envVars, httpVars, zoneVars, weatherVars, configs, call,
                 requests, caller, emissions, bulkVars>>

\* f.client.Do returns and Post returns (lines 241-252): the body is
\* returned whatever the status code is
PostResponse ==
  /\ result.kind = "pending"
  /\ call.method = "Post"
  /\ \E outcome \in Outcomes :
       \E respBody \in IF outcome \in {"ok", "status"} THEN Bodies(call, caller)
                   ELSE {""} :
         /\ reply' = [outcome |-> outcome, body |-> respBody]
         /\ result' =
              CASE outcome = "send error" ->
                     [kind |-> "error", data |-> "",
                      err |-> "error sending request"]
                [] outcome = "read error" ->
                     [kind |-> "error", data |-> "",
                      err |-> "error reading response"]
                [] OTHER ->
                     [kind |-> "body", data |-> respBody, err |-> ""]
  /\ UNCHANGED <<envVars, httpVars, zoneVars, weatherVars, configs, call,
                 requests, caller, emissions, bulkVars>>

\* GetCurrentWeather returns the record and IsWeatherSuitableForFlight
\* judges it (weather_api.go lines 91-101, 213-244)
SuitableReturns ==
  /\ caller = "IsWeatherSuitableForFlight"
  /\ result.kind \in {"error", "mock", "body"}
  /\ ~verdict.called
  /\ weather' = GetCurrentWeather(result)
  /\ verdict' = IsWeatherSuitableForFlight(GetCurrentWeather(result))
  /\ UNCHANGED <<envVars, httpVars, zoneVars, fetcherVars, bulkVars>>

\* GetFlightEmissions returns (sustainability_api.go lines 86-97)
EmissionsReturns ==
  /\ caller = "GetFlightEmissions"
  /\ result.kind \in {"error", "body"}
  /\ ~emissions.called
  /\ emissions' =
       GetFlightEmissions(result, EmissionsOrigin, EmissionsDestination)
  /\ UNCHANGED <<envVars, httpVars, zoneVars, weatherVars, configs, call,
                 result, requests, caller, reply, bulkVars>>

\* the caller has the result; the clients are ready for the next call
GetReturned ==
  /\ result.kind \in {"error", "mock", "body"}
  /\ caller = "IsWeatherSuitableForFlight" => verdict.called
  /\ caller = "GetFlightEmissions" => emissions.called
  /\ call' = NoCall
  /\ result' = NoResult
  /\ requests' = <<>>
  /\ caller' = ""
  /\ reply' = NoReply
  /\ emissions' = NoEmissions
  /\ weather' = NoWeather
  /\ verdict' = NoVerdict
  /\ UNCHANGED <<envVars, httpVars, zoneVars, configs, bulkVars>>

InitFetcher ==
  /\ BulkIdle
  /\ EnvIdle
  /\ HttpIdle
  /\ ZonesIdle
  /\ WeatherIdle
  /\ configs \in NewFetcherConfigs
  /\ call = NoCall
  /\ result = NoResult
  /\ requests = <<>>
  /\ caller = ""
  /\ reply = NoReply
  /\ emissions = NoEmissions

NextFetcher ==
  \/ GetCalled
  \/ SuitableCalled
  \/ EmissionsCalled
  \/ GetResponse
  \/ PostResponse
  \/ SuitableReturns
  \/ EmissionsReturns
  \/ GetReturned

SpecFetcher == InitFetcher /\ [][NextFetcher]_vars

\* ------------------------------------------------------- handleBulkImport
\* most records of a bulk POST
MaxRecords == 2

\* the import_type each route's handleBulkImport writes
ImportTypes == {"aircraft_data", "geopolitical_risk_data", "flight_data"}

\* the fields a record must hold for its route: `!registrationNumber`,
\* `!countryCode || !countryName`, `!flightNumber`
RequiredFields(type) ==
  CASE type = "aircraft_data" -> {"registrationNumber"}
    [] type = "geopolitical_risk_data" -> {"countryCode", "countryName"}
    [] type = "flight_data" -> {"flightNumber"}

\* records of a POSTed array, each given by the required fields it holds
Records ==
  {{}, {"registrationNumber"}, {"countryCode"},
   {"countryCode", "countryName"}, {"flightNumber"}}

DataArrays == UNION {[1..n -> Records] : n \in 0..MaxRecords}

\* the counters after a record that was stored (ok) or that threw
Tally_DropsFailure(counts, ok) ==
  IF ok THEN [counts EXCEPT !.successfulImports = @ + 1] ELSE counts

\* `successfulImports++` at the end of the inner try, `failedImports++` in
\* its catch
Tally(counts, ok) ==
  IF ok THEN [counts EXCEPT !.successfulImports = @ + 1]
  ELSE [counts EXCEPT !.failedImports = @ + 1]

\* `return NextResponse.json(..., { status: 500 })` of the outer catch
BulkImportFailed ==
  [code |-> 500, totalRecords |-> 0, successfulImports |-> 0,
   failedImports |-> 0]

\* POST with an array body: handleBulkImport is entered
BulkPost ==
  /\ bpc = "idle"
  /\ \E type \in ImportTypes, array \in DataArrays :
       /\ importType' = type
       /\ dataArray' = array
  /\ bpc' = "create"
  /\ UNCHANGED <<index, successfulImports, failedImports, errors, bulkImports,
                 bulkResponse, poller>>
  /\ UNCHANGED <<envVars, httpVars, zoneVars, weatherVars, fetcherVars>>

\* INSERT INTO bulk_imports ... 'processing': the query is answered, or it
\* throws and the outer catch answers 500
CreateRow ==
  /\ bpc = "create"
  /\ \E ok \in BOOLEAN :
       IF ok
       THEN /\ bulkImports' = [exists |-> TRUE,
                               total_records |-> Len(dataArray),
                               successful_imports |-> 0,
                               failed_imports |-> 0,
                               status |-> "processing"]
            /\ bpc' = "loop"
            /\ UNCHANGED bulkResponse
       ELSE /\ bulkResponse' = BulkImportFailed
            /\ bpc' = "done"
            /\ UNCHANGED bulkImports
  /\ UNCHANGED <<importType, dataArray, index, successfulImports,
                 failedImports, errors, poller>>
  /\ UNCHANGED <<envVars, httpVars, zoneVars, weatherVars, fetcherVars>>

\* one iteration of the loop over the array: a record without its required
\* fields throws before the query; the INSERT of a record is answered or
\* throws; the inner catch counts the failure and the loop goes on
ProcessRecord ==
  /\ bpc = "loop"
  /\ index < Len(dataArray)
  /\ \E dbOk \in BOOLEAN :
       LET record == dataArray[index + 1]
           ok     == RequiredFields(importType) \subseteq record /\ dbOk
           counts == Tally([successfulImports |-> successfulImports,
                            failedImports |-> failedImports], ok)
       IN  /\ successfulImports' = counts.successfulImports
           /\ failedImports' = counts.failedImports
           /\ errors' = IF ok THEN errors ELSE Append(errors, index + 1)
  /\ index' = index + 1
  /\ UNCHANGED <<bpc, importType, dataArray, bulkImports, bulkResponse,
                 poller>>
  /\ UNCHANGED <<envVars, httpVars, zoneVars, weatherVars, fetcherVars>>

\* UPDATE bulk_imports SET ... status = 'completed' after the loop: the
\* query is answered and the handler answers 201 with the result, or it
\* throws and the outer catch answers 500
UpdateRow ==
  /\ bpc = "loop"
  /\ index = Len(dataArray)
  /\ \E ok \in BOOLEAN :
       IF ok
       THEN /\ bulkImports' =
                 [bulkImports EXCEPT !.successful_imports = successfulImports,
                                     !.failed_imports = failedImports,
                                     !.status = "completed"]
            /\ bulkResponse' = [code |-> 201,
                                totalRecords |-> Len(dataArray),
                                successfulImports |-> successfulImports,
                                failedImports |-> failedImports]
       ELSE /\ bulkResponse' = BulkImportFailed
            /\ UNCHANGED bulkImports
  /\ bpc' = "done"
  /\ UNCHANGED <<importType, dataArray, index, successfulImports,
                 failedImports, errors, poller>>
  /\ UNCHANGED <<envVars, httpVars, zoneVars, weatherVars, fetcherVars>>

\* checkStatus of the client: GET /api/bulk-import/status/[id] returns the
\* row; the client checks again while its status is 'processing'
PollStatus ==
  /\ bulkImports.exists
  /\ poller # "stopped"
  /\ poller' = IF bulkImports.status = "processing" THEN "polling"
               ELSE "stopped"
  /\ UNCHANGED <<bpc, importType, dataArray, index, successfulImports,
                 failedImports, errors, bulkImports, bulkResponse>>
  /\ UNCHANGED <<envVars, httpVars, zoneVars, weatherVars, fetcherVars>>

InitBulk ==
  /\ BulkIdle
  /\ EnvIdle
  /\ HttpIdle
  /\ ZonesIdle
  /\ WeatherIdle
  /\ FetcherIdle

\* a step of the request handler
HandlerStep == BulkPost \/ CreateRow \/ ProcessRecord \/ UpdateRow

NextBulk ==
  \/ BulkPost
  \/ CreateRow
  \/ ProcessRecord
  \/ UpdateRow
  \/ PollStatus

SpecBulk == InitBulk /\ [][NextBulk]_vars

\* the handler's awaited queries settle and the client's timer fires
SpecBulkLive ==
  /\ InitBulk
  /\ [][NextBulk]_vars
  /\ WF_vars(HandlerStep)
  /\ WF_vars(PollStatus)

\* ================================================================ claims
\* MockProvider.GetFlightEnvironment has returned: to the handler, or to
\* LiveProvider.GetFlightEnvironment
MockCallReturned ==
  \/ pc = "live_resume"
  \/ provider = "mock" /\ pc \in {"returned", "responded"}

\* the provider bound to the handler has returned or panicked
ProviderCallOver == pc \in {"returned", "responded", "panicked"}

\* domains with a fetch, or a per-country call, that returned an error
FailedDomains ==
  (failed \cap Domains)
    \cup (IF failed \cap CountryCodes # {} THEN {"geopolitical"} ELSE {})

\* the wiring of NewMockProvider: no fetcher returned an error
NoFetchFailed == failed = {}

\* what each field holds when its domain's fetch succeeded
AircraftResult == NonNil(GetAircraft([limit |-> Itoa(count)]).recs)
FlightsResult == NonNil(GetFlights([limit |-> Itoa(count)]).recs)
WeatherResult ==
  NonNil({[k |-> airports[i], v |-> [Location |-> airports[i]]] :
            i \in 1..Len(airports)})
NewsResult == NonNil(GetGeopoliticalNews(topics).news)
GeopoliticalResult ==
  NonNil({[k |-> c, v |-> [Country |-> c, RiskLevel |-> riskLevels[c]]] :
            c \in CountryCodes \ failed})
SustainabilityHolds(m) ==
  IF "sustainability" \in started /\ "sustainability" \notin failed
  THEN /\ ~m.nil
       /\ Cardinality(m.v) = 1
       /\ \A e \in m.v : e.k = Lookup(params, "route")
  ELSE m = NonNil({})

\* C1: when a non-empty proper subset of the six domain fetches fails and the
\* context is never canceled, the synthetic provider's GetFlightEnvironment
\* returns the snapshot with a nil error; the field of every failed domain is
\* nil or empty and the field of every other domain holds its fetch result.
C1_PartialFailureDegrades ==
  (/\ MockCallReturned
   /\ ctx = NoError
   /\ FailedDomains # {}
   /\ FailedDomains # Domains)
  => /\ ret = [kind |-> "data", data |-> "envData", err |-> NoError]
     /\ envData.Aircraft =
          IF "aircraft" \in failed THEN Nil(<<>>) ELSE AircraftResult
     /\ envData.Flights =
          IF "flights" \in failed THEN Nil(<<>>) ELSE FlightsResult
     /\ envData.Weather =
          IF "weather" \in failed THEN NonNil({}) ELSE WeatherResult
     /\ envData.News =
          IF "news" \in failed THEN Nil([Articles |-> <<>>, Count |-> 0])
          ELSE NewsResult
     /\ envData.NoFlyZones =
          IF "news" \in failed THEN Nil(<<>>) ELSE NonNil(<<"IR", "RU", "KP">>)
     /\ envData.Geopolitical = GeopoliticalResult
     /\ SustainabilityHolds(envData.Sustainability)

\* C1 witness: a call returned a snapshot in which the flights and news
\* fetches failed and the aircraft and weather fetches succeeded
C1_Witness ==
  /\ MockCallReturned
  /\ ctx = NoError
  /\ FailedDomains = {"flights", "news"}
  /\ ret.kind = "data"
  /\ ~envData.Aircraft.nil
  /\ envData.Flights.nil

\* C2: GetFlightEnvironment of either provider fails only when the request
\* context is canceled or past its deadline: whatever the parameters and
\* whichever fetches fail, a call that is over has returned the snapshot, or
\* has returned the context's error with the context done; it never fails in
\* another way.
C2_FailsOnlyOnContext ==
  ProviderCallOver
  => \/ ret = [kind |-> "data", data |-> "envData", err |-> NoError]
     \/ /\ ret.kind = "error"
        /\ ctx # NoError
        /\ ErrorsIs(ret.err, ctx)

\* C3: called with a context whose deadline has already expired,
\* GetFlightEnvironment starts no domain fetch and returns no snapshot but an
\* error that is (for the live provider: wraps) "deadline exceeded".
C3_ExpiredDeadline ==
  ctxAtCall = DeadlineExceeded
  => /\ started = {}
     /\ finished = {}
     /\ pc \in {"chk_aircraft", "live_resume", "returned", "responded"}
     /\ pc # "chk_aircraft"
        => /\ ret.kind = "error"
           /\ ErrorsIs(ret.err, DeadlineExceeded)
           /\ ~ErrorsIs(ret.err, Canceled)
           /\ provider = "mock" => ret.err = DeadlineExceeded

\* C3 witness: a call entered with an expired deadline has returned its error
C3_Witness ==
  /\ ctxAtCall = DeadlineExceeded
  /\ pc = "returned"
  /\ provider = "mock"
  /\ ret = [kind |-> "error", data |-> "nil", err |-> DeadlineExceeded]

\* C4: if the context expires or is canceled at any moment before the
\* synthetic provider's GetFlightEnvironment returns, the call returns the
\* context's error and no snapshot.
C4_ContextErrorIsSoleResult ==
  (MockCallReturned /\ ctx # NoError)
  => ret = [kind |-> "error", data |-> "nil", err |-> ctx]

\* C5: once the context is done, no further domain fetch and no further
\* per-airport or per-country sub-call is started.
C5_NoCallAfterDone == lateCalls = {}

\* the call is inside a domain fetch, waiting for it to return
WaitingForFetch ==
  pc \in {"fetch_aircraft", "fetch_flights", "fetch_weather", "fetch_news",
          "geo_loop", "fetch_sustain"}

\* C6: the six domain fetches are concurrent tasks, one per domain: while the
\* call waits for a fetch to return, the fetch of every domain has been
\* launched; and the call returns its snapshot only after every launched
\* fetch has returned, or the context is done.
C6_ConcurrentTasks ==
  /\ WaitingForFetch => started = Domains
  /\ (MockCallReturned /\ ret.kind = "data")
     => (finished = started \/ ctx # NoError)

\* C7: within one request every snapshot field is assigned at most once after
\* the snapshot is constructed, so by at most one writer.
C7_WriteOncePerField == \A f \in Fields : Len(writers[f]) <= 1

\* the snapshot handed to the handler
ReturnedSnapshot == pc \in {"returned", "responded"} /\ ret.kind = "data"

\* C8: every snapshot a provider returns has Aircraft, Flights, Weather, News,
\* Geopolitical, Sustainability, NoFlyZones and Timestamp initialised, none
\* of them nil or absent, whichever domain fetches failed.
C8_StructurallyComplete ==
  ReturnedSnapshot
  => /\ \A f \in Fields \ {"Timestamp"} : ~envData[f].nil
     /\ envData.Timestamp # <<>>

C10_ExactCount ==
  (/\ ReturnedSnapshot
   /\ provider = "mock"
   /\ NoFetchFailed
   /\ "aircraft_count" \in DOMAIN params)
  => LET n == Atoi(params["aircraft_count"])
     IN  (~n.err /\ n.val >= 0)
         => /\ Len(envData.Aircraft.v) = n.val
            /\ Len(envData.Flights.v) = n.val
            /\ ~envData.Aircraft.nil
            /\ ~envData.Flights.nil

\* C10 witness: a snapshot for aircraft_count=3 with three aircraft and flights
C10_Witness ==
  /\ ReturnedSnapshot
  /\ provider = "mock"
  /\ NoFetchFailed
  /\ "aircraft_count" \in DOMAIN params
  /\ params["aircraft_count"] = <<"3">>
  /\ Len(envData.Aircraft.v) = 3
  /\ Len(envData.Flights.v) = 3

\* --------------------------------------------- the no-fly-zone derivation
\* term occurs in text
Occurs(term, text) ==
  \E start \in 1..(Len(text) - Len(term) + 1) :
    \A j \in 1..Len(term) : text[start + j - 1] = term[j]

\* the text of an article in which the derivation looks for terms
ArticleText(article) == Title(article) \o <<" ">> \o Description(article)

AlertTerms == {alertKeywords[i] : i \in 1..Len(alertKeywords)}

CountryTerms(code) ==
  CASE code = "IR" -> {iranKeywords[i] : i \in 1..Len(iranKeywords)}
    [] code = "RU" -> {russiaKeywords[i] : i \in 1..Len(russiaKeywords)}
    [] code = "KP" -> {koreaKeywords[i] : i \in 1..Len(koreaKeywords)}

Codes(zones) == {zones[i] : i \in 1..Len(zones)}

\* the derivation has run on the articles that news holds now
Derived == ~noFlyZones.nil /\ noFlyZones.v = extractNoFlyZones(news)

IranianAirspaceClosed ==
  [Title |-> <<"I", "r", "a", "n", "i", "a", "n", " ", "a", "i", "r", "s",
               "p", "a", "c", "e", " ", "c", "l", "o", "s", "e", "d">>,
   Description |-> <<>>]

IranOnly == [Title |-> <<"I", "r", "a", "n">>, Description |-> <<>>]

\* C11: the derivation puts IR, RU or KP in its result if and only if some
\* article's text holds an alert term and, in that same article, one of that
\* country's name terms; nothing else is ever in the result.
C11_ZoneIffAlertAndCountry ==
  Derived
  => /\ \A code \in {"IR", "RU", "KP"} :
          code \in Codes(noFlyZones.v)
          <=> \E i \in 1..Len(news.Articles) :
                /\ \E t \in AlertTerms :
                     Occurs(t, ArticleText(news.Articles[i]))
                /\ \E t \in CountryTerms(code) :
                     Occurs(t, ArticleText(news.Articles[i]))
     /\ Codes(noFlyZones.v) \subseteq {"IR", "RU", "KP"}

\* C11 witness: of "Iran" alone and "Iranian airspace closed" only the second
\* article yields IR; "Iran" alone yields nothing
C11_Witness ==
  /\ news.Articles = <<IranOnly, IranianAirspaceClosed>>
  /\ noFlyZones = NonNil(<<"IR">>)

\* C12: the set of codes does not depend on the order of the articles and
\* repeating the derivation gives the same set: a result once computed stays
\* the set of codes of the derivation on the same articles in any order.
C12_OrderIndependent ==
  ~noFlyZones.nil
  => Codes(noFlyZones.v) = Codes(extractNoFlyZones(news))

\* C12 witness: the articles changed places after the derivation had run, and
\* the codes computed before are those of the new order, which lists them
\* the other way round
C12_Witness ==
  /\ ~noFlyZones.nil
  /\ Len(noFlyZones.v) = 2
  /\ extractNoFlyZones(news) = <<noFlyZones.v[2], noFlyZones.v[1]>>

\* C13: no country code occurs in the derived result more than once.
C13_Deduplicated ==
  ~noFlyZones.nil
  => \A i, j \in 1..Len(noFlyZones.v) :
       i # j => noFlyZones.v[i] # noFlyZones.v[j]

\* C13 witness: three articles that all match Iran gave IR once
C13_Witness ==
  /\ Len(news.Articles) = 3
  /\ \A i \in 1..3 : ArticleZones(news.Articles[i]) = <<"IR">>
  /\ noFlyZones = NonNil(<<"IR">>)

\* C14: in every snapshot a provider returns, NoFlyZones holds the codes of
\* the no-fly-zone derivation applied to the News of that same snapshot.
C14_ZonesDerivedFromNews ==
  (ReturnedSnapshot /\ ~envData.News.nil)
  => /\ ~envData.NoFlyZones.nil
     /\ Codes(envData.NoFlyZones.v) = Codes(extractNoFlyZones(envData.News.v))

\* ----------------------------------------------------- health and redirect
\* what the claim wants of a health answer for the two Ping results
HealthAnswerFits(mockOk, liveOk, code, resp) ==
  /\ (resp.status = "healthy" /\ code = 200) <=> (mockOk /\ liveOk)
  /\ (resp.status = "degraded" /\ code = 503) <=> (~mockOk \/ ~liveOk)
  /\ resp.mock = "ok" <=> mockOk
  /\ resp.mock = "error" <=> ~mockOk
  /\ resp.live = "ok" <=> liveOk
  /\ resp.live = "error" <=> ~liveOk

\* C15: /health answers status=healthy with 200 exactly when both Ping()
\* results are true and status=degraded with 503 when either is false, and
\* the body gives ok for a true Ping and error for a false one: so for the
\* answer that was sent, and so for what healthCheck computes from any pair
\* of Ping results.
C15_HealthMapping ==
  /\ (pc = "responded" /\ path = "/health")
     => HealthAnswerFits(mockHealthy, liveHealthy, status, response)
  /\ \A mockOk, liveOk \in BOOLEAN :
       HealthAnswerFits(mockOk, liveOk, HealthCode(mockOk, liveOk),
                        HealthResponse(mockOk, liveOk))

\* C15 witness: /health was answered 200, healthy, with both providers ok
C15_Witness ==
  /\ pc = "responded"
  /\ path = "/health"
  /\ mockHealthy /\ liveHealthy
  /\ status = 200
  /\ response = [status |-> "healthy", mock |-> "ok", live |-> "ok"]

\* C16: GET /flight-environment with query string q is answered 301 with the
\* target /flight-environment/sample followed by "?" and q unchanged when q
\* is not empty, and /flight-environment/sample alone when q is empty.
C16_RedirectKeepsQuery ==
  (pc = "responded" /\ path = "/flight-environment")
  => /\ status = 301
     /\ rawQuery # <<>> => location = SampleTarget \o <<"?">> \o rawQuery
     /\ rawQuery = <<>> => location = SampleTarget

\* C16 witness: the query route=JFK-LAX was redirected to
\* /flight-environment/sample?route=JFK-LAX
C16_Witness ==
  /\ pc = "responded"
  /\ path = "/flight-environment"
  /\ status = 301
  /\ rawQuery = <<"r", "o", "u", "t", "e", "=", "J", "F", "K", "-", "L", "A",
                 "X">>
  /\ location =
       <<"/", "f", "l", "i", "g", "h", "t", "-", "e", "n", "v", "i", "r",
         "o", "n", "m", "e", "n", "t", "/", "s", "a", "m", "p", "l", "e",
         "?", "r", "o", "u", "t", "e", "=", "J", "F", "K", "-", "L", "A",
         "X">>

\* ------------------------------------------------- weather suitability
\* C17: IsWeatherSuitableForFlight returns suitable=false if and only if the
\* record has visibility < 3 miles, or wind speed > 35 kt, or category LIFR
\* or IFR.
C17_SuitableIffNoRuleViolated ==
  verdict.called
  => (~verdict.suitable
      <=> \/ weather.Miles < 30
          \/ weather.Speed > 350
          \/ weather.WeatherCategory \in {"LIFR", "IFR"})

\* C17 witness: visibility exactly 3, wind exactly 35 and category VFR were
\* found suitable
C17_Witness ==
  /\ verdict.called
  /\ weather = [Miles |-> 30, Speed |-> 350, WeatherCategory |-> "VFR"]
  /\ verdict.suitable

\* C18: the reason string names every violated rule and no rule that is not
\* violated.
C18_ReasonNamesViolatedRules ==
  verdict.called
  => /\ Occurs(LowVisibilityReason, verdict.reasonStr)
        <=> weather.Miles < 30
     /\ Occurs(HighWindSpeedReason, verdict.reasonStr)
        <=> weather.Speed > 350
     /\ Occurs(PoorCategoryReason, verdict.reasonStr)
        <=> weather.WeatherCategory \in {"LIFR", "IFR"}

\* C18 witness: visibility 2 miles and wind 10 kt gave suitable=false with a
\* reason that mentions low visibility only
C18_Witness ==
  /\ verdict.called
  /\ weather = [Miles |-> 20, Speed |-> 100, WeatherCategory |-> "VFR"]
  /\ ~verdict.suitable
  /\ verdict.reasonStr = UnsuitablePrefix \o <<"[">> \o LowVisibilityReason
                           \o <<"]">>

\* ------------------------------------------------------- request defaults
\* s is the decimal writing of an integer: digits, with or without a sign
IsDecimalInteger(s) ==
  LET unsigned == IF s # <<>> /\ s[1] \in {"+", "-"} THEN Tail(s) ELSE s
  IN  /\ unsigned # <<>>
      /\ \A i \in 1..Len(unsigned) :
           unsigned[i] \in {"0", "1", "2", "3", "4", "5", "6", "7", "8", "9"}

\* the request carries no aircraft_count, or one that is not an integer
CountMissingOrMalformed ==
  \/ "aircraft_count" \notin DOMAIN params
  \/ ~IsDecimalInteger(params["aircraft_count"])

\* C19: a missing aircraft_count is treated as 5 and a malformed one is
\* tolerated by the same default: the provider call does not fail on it, the
\* request is answered 200 and the snapshot carries 5 aircraft and 5 flights.
C19_DefaultCount ==
  (/\ path \in {"/flight-environment/sample", "/flight-environment/live"}
   /\ CountMissingOrMalformed)
  => /\ pc # "panicked"
     /\ (ProviderCallOver /\ ctx = NoError) => ret.kind = "data"
     /\ (pc = "responded" /\ ret.kind = "data") => status = 200
     /\ (ReturnedSnapshot /\ NoFetchFailed)
        => /\ Len(envData.Aircraft.v) = 5
           /\ Len(envData.Flights.v) = 5

\* C19 witness: the live endpoint answered aircraft_count=1x with 200 and a
\* snapshot of five aircraft and five flights
C19_Witness ==
  /\ pc = "responded"
  /\ path = "/flight-environment/live"
  /\ "aircraft_count" \in DOMAIN params
  /\ params["aircraft_count"] = <<"1", "x">>
  /\ status = 200
  /\ Len(envData.Aircraft.v) = 5
  /\ Len(envData.Flights.v) = 5

\* --------------------------------------------------------------- fetcher
\* C20: for every API the fetcher is configured for, when no credential is
\* configured for it, Get returns that API's fallback payload at once, with
\* no error and without sending a request.
C20_NoCredentialFallsBack ==
  (/\ call.method = "Get"
   /\ call.apiName \in DOMAIN configs
   /\ configs[call.apiName] = "")
  => /\ result.kind = "mock"
     /\ result.data = getMockResponse(call.apiName, call.endpoint)
     /\ result.err = ""
     /\ requests = <<>>

\* a credential is configured for the API the client method calls
Credentialed == call.apiName \in DOMAIN configs /\ configs[call.apiName] # ""

\* the body the upstream answered with is not JSON of the record's shape
MalformedBody ==
  /\ reply.outcome \in {"ok", "status"}
  /\ IF caller = "GetFlightEmissions" THEN UnmarshalICAO(reply.body).err
     ELSE UnmarshalWeather(reply.body).err

\* the call failed by network error, non-2xx status or malformed body
CallFailed ==
  \/ reply.outcome \in {"send error", "read error", "status"}
  \/ MalformedBody

\* C21: a credentialed weather or sustainability call that fails by network
\* error, non-2xx status or malformed body returns the fallback record with
\* a nil error.
C21_FailedCallReturnsFallback ==
  /\ (/\ caller = "IsWeatherSuitableForFlight"
      /\ verdict.called
      /\ Credentialed
      /\ CallFailed)
     => weather = getMockWeatherData
  /\ (/\ caller = "GetFlightEmissions"
      /\ emissions.called
      /\ Credentialed
      /\ CallFailed)
     => /\ emissions.err = ""
        /\ emissions.rec =
             NonNil(getMockSustainabilityData(EmissionsOrigin,
                                              EmissionsDestination))

\* the weather half of C21, which the code keeps
C21_WeatherFallsBack ==
  (/\ caller = "IsWeatherSuitableForFlight"
   /\ verdict.called
   /\ Credentialed
   /\ CallFailed)
  => weather = getMockWeatherData

\* the weather record came from the fallback of Get for a missing credential
NoCredentialFallback ==
  /\ caller = "IsWeatherSuitableForFlight"
  /\ verdict.called
  /\ result.kind = "mock"

\* the weather record was substituted after a failed credentialed call
FailedCallFallback ==
  /\ caller = "IsWeatherSuitableForFlight"
  /\ verdict.called
  /\ Credentialed
  /\ CallFailed

\* C26: the weather record obtained when no credential is configured and
\* the fallback record substituted after a failed credentialed call are both
\* judged suitable by IsWeatherSuitableForFlight.
C26_FallbacksJudgedSuitable ==
  (NoCredentialFallback \/ FailedCallFallback) => verdict.suitable

\* the half of C26 the code keeps: the record substituted after a failed
\* credentialed call is judged suitable
C26_FailedCallJudgedSuitable == FailedCallFallback => verdict.suitable

\* C22: serving a request changes no state that another request can
\* observe: no step of a provider or of a domain fetcher changes the global
\* random source, from which later requests draw their values.
C22_RequestsChangeNoGlobalState == [][randSrc' = randSrc]_vars

\* GetFlightEnvironment has returned to its caller
HasReturned == ret.kind \in {"data", "error"}

\* C24: GetFlightEnvironment returns exactly one of a snapshot and an
\* error; a cancellation observed after some domains were fetched returns
\* the error without the snapshot.
C24_SnapshotXorError ==
  HasReturned
  => /\ (ret.data = "nil") <=> (ret.err # NoError)
     /\ (ret.err # NoError /\ finished # {}) => ret.data = "nil"

\* a cancellation is observed after at least one domain was fetched
C24_Witness ==
  /\ HasReturned
  /\ ret.err # NoError
  /\ "aircraft" \in finished
  /\ envData.Aircraft # Nil(<<>>)
  /\ ret.data = "nil"

\* number of "LIVE-" prefixes the text starts with
RECURSIVE LeadingLive(_)
LeadingLive(text) ==
  IF text # <<>> /\ Head(text) = "LIVE-" THEN 1 + LeadingLive(Tail(text))
  ELSE 0

\* the text carries the "LIVE-" prefix exactly once
LiveOnce(text) == LeadingLive(text) = 1

\* the live provider has returned a snapshot for aircraft_count n, with the
\* aircraft and flight fetches answered
LiveReturnedFor(n) ==
  /\ provider = "live"
  /\ pc \in {"returned", "responded"}
  /\ ret.kind = "data"
  /\ "aircraft_count" \in DOMAIN params
  /\ params["aircraft_count"] = Itoa(n)
  /\ failed \cap {"aircraft", "flights"} = {}

\* C25: for aircraft_count n >= 0 the live provider returns exactly n
\* aircraft and n flights, and every returned registration and flight number
\* carries the "LIVE-" prefix exactly once.
C25_LiveCountAndPrefix ==
  \A n \in 0..(MaxCount + 1) :
    LiveReturnedFor(n)
    => /\ Len(envData.Aircraft.v) = n
       /\ Len(envData.Flights.v) = n
       /\ \A i \in 1..Len(envData.Aircraft.v) :
            LiveOnce(envData.Aircraft.v[i].Registration)
       /\ \A i \in 1..Len(envData.Flights.v) :
            LiveOnce(envData.Flights.v[i].FlightNumber)

\* the live provider has returned two relabelled aircraft and flights
C25_Witness ==
  /\ LiveReturnedFor(2)
  /\ Len(envData.Aircraft.v) = 2
  /\ LiveOnce(envData.Aircraft.v[2].Registration)
  /\ LiveOnce(envData.Flights.v[2].FlightNumber)

\* the synthetic provider has returned a snapshot to the handler, with the
\* sustainability fetch, if made, answered
MockSnapshotReturned ==
  /\ provider = "mock"
  /\ pc \in {"returned", "responded"}
  /\ ret.kind = "data"
  /\ "sustainability" \notin failed

\* C27: in a synthetic-provider snapshot the Sustainability map holds an
\* entry exactly when the route parameter has at least 7 characters, never
\* holds more than one entry, and that entry's key equals the Route value
\* (origin-destination) of the record it maps to.
C27_SustainabilityEntry ==
  MockSnapshotReturned
  => /\ (envData.Sustainability.v # {})
          <=> Len(Lookup(params, "route")) >= 7
     /\ Cardinality(envData.Sustainability.v) <= 1
     /\ \A e \in envData.Sustainability.v : e.k = e.v.Route

\* the part of C27 the code keeps: an entry exactly for a route of 7 or more
\* characters, and never more than one
C27_EntryForLongRoute ==
  MockSnapshotReturned
  => /\ (envData.Sustainability.v # {})
          <=> Len(Lookup(params, "route")) >= 7
     /\ Cardinality(envData.Sustainability.v) <= 1

IranAirspaceClosedCapitalised ==
  [Title |-> <<"I", "r", "a", "n", " ", "A", "i", "r", "s", "p", "a", "c",
              "e", " ", "C", "l", "o", "s", "e", "d">>,
   Description |-> <<>>]

IRANAirspaceClosed ==
  [Title |-> <<"I", "R", "A", "N", " ", "a", "i", "r", "s", "p", "a", "c",
              "e", " ", "c", "l", "o", "s", "e", "d">>,
   Description |-> <<>>]

LowerIranUpperAirspace ==
  [Title |-> <<"i", "r", "a", "n", " ", "A", "I", "R", "S", "P", "A", "C",
              "E">>,
   Description |-> <<>>]

\* articles whose only candidates for a term differ from it in case
MiscasedArticles ==
  {IranAirspaceClosedCapitalised, IRANAirspaceClosed, LowerIranUpperAirspace}

\* C28: keyword matching in the no-fly-zone derivation is exact and
\* case-sensitive: a code is derived only from an article that holds an alert
\* term and a term of that country with the listed capitalisation, so
\* articles whose only candidates are "Airspace", "Closed", "AIRSPACE",
\* "IRAN" or "iran" yield nothing.
C28_CaseSensitiveMatching ==
  Derived
  => /\ \A code \in Codes(noFlyZones.v) :
          \E i \in 1..Len(news.Articles) :
            /\ \E term \in AlertTerms :
                 Occurs(term, ArticleText(news.Articles[i]))
            /\ \E term \in CountryTerms(code) :
                 Occurs(term, ArticleText(news.Articles[i]))
     /\ (\A i \in 1..Len(news.Articles) :
           news.Articles[i] \in MiscasedArticles)
        => noFlyZones.v = <<>>

\* the derivation has run on "Iran Airspace Closed" and "IRAN airspace
\* closed" and derived nothing
C28_Witness ==
  /\ Derived
  /\ news.Articles = <<IranAirspaceClosedCapitalised, IRANAirspaceClosed>>
  /\ noFlyZones.v = <<>>

\* C29: both providers' Ping() return true and change no state, so every
\* step that serves /health answers HTTP 200 with status healthy, never 503
\* or degraded, and leaves the providers and the random source as they were.
C29_HealthAlwaysHealthy ==
  [][(path' = "/health" /\ path # "/health")
     => /\ MockPing /\ LivePing
        /\ status' = 200
        /\ response'.status = "healthy"
        /\ mockHealthy' /\ liveHealthy'
        /\ provider' = provider
        /\ envData' = envData
        /\ randSrc' = randSrc]_vars

\* /health was answered by the healthy branch
C29_Witness ==
  /\ path = "/health"
  /\ body = "health"
  /\ status = 200
  /\ response.status = "healthy"

\* records of the array that were counted, as successes or failures
Counted == successfulImports + failedImports

\* C23: when a bulk POST of N records is answered 201, the result has
\* totalRecords = N and successfulImports + failedImports = N, and every
\* record was handled, those after a failed record included.
C23_EveryRecordCountedOnce ==
  /\ bulkResponse.code = 201
     => /\ bulkResponse.totalRecords = Len(dataArray)
        /\ bulkResponse.successfulImports + bulkResponse.failedImports
             = Len(dataArray)
        /\ index = Len(dataArray)
        /\ Len(errors) = bulkResponse.failedImports
  /\ bpc = "loop" => Counted = index

\* a 201 answer for two records of which the first failed and the second
\* was stored
C23_Witness ==
  /\ bulkResponse.code = 201
  /\ Len(dataArray) = 2
  /\ errors = <<1>>
  /\ bulkResponse.successfulImports = 1
  /\ bulkResponse.failedImports = 1

\* C30: every bulk_imports row created with status 'processing' is
\* eventually updated to 'completed' by the request that created it.
C30_RowEventuallyCompleted ==
  (bulkImports.exists /\ bulkImports.status = "processing")
    ~> (bulkImports.status = "completed")

\* the second half of C30: a client that polls while the status is
\* 'processing' eventually stops polling
C30_PollerEventuallyStops == (poller = "polling") ~> (poller = "stopped")

\* what the code keeps of C30: a request answered 201 has left its row
\* 'completed', and a row is 'completed' only by a request answered 201
C30_CompletedWhenAnswered201 ==
  (bpc = "done" /\ bulkImports.exists)
  => (bulkResponse.code = 201 <=> bulkImports.status = "completed")

====
